---------------------------- MODULE Spec2Model ----------------------------
(***************************************************************************)
(* geo-scraper: the GEO compliance auditor (src/analyzer/geo-auditor.ts)   *)
(* and the before/after projection (src/generators/comparison-report.ts,   *)
(* held in src/src/generators/tdmrep-json.ts of this tree).                *)
(*                                                                         *)
(* The pipeline of cli.ts / the job runner is                              *)
(*     crawlResult -> auditSite -> generateProjectedAudit                  *)
(* and the unit tests call generateProjectedAudit on hand-built            *)
(* AuditResults as well.                                                   *)
(*                                                                         *)
(* Numbers.  Scores are JavaScript numbers.  Every score the code stores   *)
(* is an integer, and the tier weights are 3, 2, 1 and 0.5; the model      *)
(* keeps the weighted sums in half units (weights 6, 4, 2, 1), which       *)
(* leaves every quotient of two sums unchanged.  Math.round is             *)
(* round-half-up on the double the code computed, not on the real number   *)
(* the expression denotes: see MathRoundPct.                               *)
(***************************************************************************)
EXTENDS Integers, Sequences, FiniteSets, TLC

VARIABLES crawl, now, audit, projected, pc, objects, web

vars == <<crawl, now, audit, projected, pc, objects, web>>

(***************************************************************************)
(* Values that stand for "no value yet".                                   *)
(***************************************************************************)
NULL == "null"

NoCrawl == [none |-> "crawl"]

NoAudit == [none |-> "audit"]

(* the exception a property access on undefined raises *)
TypeErrorRaised == [raised |-> "TypeError"]

(* the value of 0/0 *)
NaN == -1

(***************************************************************************)
(* AuditItem / AuditResult  (geo-auditor.ts 8-29)                          *)
(***************************************************************************)
Tiers == {"critical", "high", "medium", "low"}

Statuses == {"pass", "partial", "fail", "not_applicable"}

Grades == {"A+", "A", "B", "C", "D", "F"}

AuditItem(name, category, score, status, details, recommendation) ==
  [name |-> name, category |-> category, score |-> score, maxScore |-> 100,
   status |-> status, details |-> details, recommendation |-> recommendation]

(***************************************************************************)
(* A details or recommendation string: the template literal of the source  *)
(* with the numbers and the names it interpolates, in order.               *)
(***************************************************************************)
Msg(text, nums, names) == [text |-> text, nums |-> nums, names |-> names]

Text(text) == Msg(text, <<>>, <<>>)

(***************************************************************************)
(* Math.round((a / b) * 100) for integers a >= 0, b > 0, as IEEE-754       *)
(* doubles evaluate it.  The quotient a/b is rounded to a double before    *)
(* the multiplication, and the product is rounded again.  The result is    *)
(* within an ulp of the real value 100a/b, so Math.round differs from      *)
(* round-half-up of the real value only when 100a/b is exactly k + 1/2     *)
(* and the double falls short of it.  For 0 <= k < 100 that happens for    *)
(* k = 14, 28, 56, 57 (0.145 * 100 = 14.499999999999998,                   *)
(* 0.285 * 100 = 28.499999999999996, 0.565 * 100 = 56.49999999999999,      *)
(* 0.575 * 100 = 57.49999999999999); every other k + 1/2 is computed       *)
(* exactly.  The double of a/b depends on the real quotient only, so the   *)
(* half units of the weighted sums do not matter.                          *)
(***************************************************************************)
ShortHalves == {14, 28, 56, 57}

MathRoundPct(a, b) ==
  IF b = 0 THEN NaN
  ELSE IF \E k \in ShortHalves : 200 * a = (2 * k + 1) * b
    THEN (200 * a - b) \div (2 * b)
    ELSE (200 * a + b) \div (2 * b)

(***************************************************************************)
(* Math.round(num / den) of the other score formulas, num >= 0: halves go  *)
(* up, and 0/0 is NaN.  Each of those formulas is a sum of at most three   *)
(* quotients of page counts; evaluated in doubles for fewer than 6 pages   *)
(* it rounds as its exact value does (with 6 pages Content Freshness       *)
(* first falls short of a half: 4 dated pages, 1 recent, 2 with JSON-LD    *)
(* dates give 47.49999999999999).                                          *)
(***************************************************************************)
MathRound(num, den) ==
  IF den = 0 THEN NaN ELSE (2 * num + den) \div (2 * den)

Min(a, b) == IF a <= b THEN a ELSE b

Max(a, b) == IF a >= b THEN a ELSE b

(***************************************************************************)
(* geo-auditor.ts 196-203                                                  *)
(***************************************************************************)
scoreToGradeSkewed(score) ==
  IF score >= 90 THEN "A+"
  ELSE IF score >= 80 THEN "A"
  ELSE IF score > 70 THEN "B"
  ELSE IF score >= 60 THEN "C"
  ELSE IF score >= 50 THEN "D"
  ELSE "F"

scoreToGrade(score) ==
  IF score >= 90 THEN "A+"
  ELSE IF score >= 80 THEN "A"
  ELSE IF score >= 70 THEN "B"
  ELSE IF score >= 60 THEN "C"
  ELSE IF score >= 50 THEN "D"
  ELSE "F"

(***************************************************************************)
(* The scoring loop of auditSite, geo-auditor.ts 164-193.  weights is the  *)
(* table of line 164 in half units.  The accumulator holds                 *)
(* totalWeightedScore, totalWeightedMax and summary.                       *)
(***************************************************************************)
weightsLowAsMedium ==
  [critical |-> 6, high |-> 4, medium |-> 2, low |-> 2]

weights ==
  [critical |-> 6, high |-> 4, medium |-> 2, low |-> 1]

emptySummary ==
  [t \in Tiers |-> [passed |-> 0, total |-> 0]]

auditSiteStepCountingFails(acc, item) ==
  [totalWeightedScore |-> acc.totalWeightedScore + item.score * weights[item.category],
   totalWeightedMax |-> acc.totalWeightedMax + item.maxScore * weights[item.category],
   summary |-> [acc.summary EXCEPT
      ![item.category] =
        [total |-> @.total + 1,
         passed |-> IF item.status \in {"pass", "partial", "not_applicable"}
                      THEN @.passed + 1 ELSE @.passed]]]

auditSiteStep(acc, item) ==
  [totalWeightedScore |-> acc.totalWeightedScore + item.score * weights[item.category],
   totalWeightedMax |-> acc.totalWeightedMax + item.maxScore * weights[item.category],
   summary |-> [acc.summary EXCEPT
      ![item.category] =
        [total |-> @.total + 1,
         passed |-> IF item.status = "pass" \/ item.status = "partial"
                      THEN @.passed + 1 ELSE @.passed]]]

(* for (const item of items): the steps for items[lo..hi] in list order.   *)
(* The range is split in two so that the evaluation nests log(n) deep; the *)
(* test on left (the sums are never negative) only makes the first half be *)
(* evaluated before the second starts.                                     *)
RECURSIVE auditSiteLoop(_, _, _, _)
auditSiteLoop(items, lo, hi, acc) ==
  IF lo > hi THEN acc
  ELSE IF lo = hi THEN auditSiteStep(acc, items[lo])
  ELSE LET mid == (lo + hi) \div 2
           left == auditSiteLoop(items, lo, mid, acc)
       IN IF left.totalWeightedMax >= 0
            THEN auditSiteLoop(items, mid + 1, hi, left)
            ELSE left

(* lines 163-193: the result auditSite builds from its list of items *)
auditSiteResult(items) ==
  LET acc == auditSiteLoop(items, 1, Len(items),
               [totalWeightedScore |-> 0, totalWeightedMax |-> 0,
                summary |-> emptySummary])
      overallScore ==
        IF acc.totalWeightedMax > 0
          THEN MathRoundPct(acc.totalWeightedScore, acc.totalWeightedMax)
          ELSE 0
  IN [overallScore |-> overallScore,
      maxPossibleScore |-> 100,
      grade |-> scoreToGrade(overallScore),
      items |-> items,
      summary |-> acc.summary]

(***************************************************************************)
(* comparison-report.ts: PROJECTED_IMPROVEMENTS (tdmrep-json.ts 288-300)   *)
(***************************************************************************)
ImprovableNames ==
  {"robots.txt", "AI Bot Blocking", "sitemap.xml", "llms.txt", "llms-full.txt",
   "AI Policy (ai.txt / ai.json)", "security.txt", "tdmrep.json", "humans.txt",
   "manifest.json", "Structured Data (JSON-LD)"}

PROJECTED_IMPROVEMENTS ==
  [n \in ImprovableNames |->
     CASE n = "robots.txt" ->
            [score |-> 100, note |-> "AI crawler directives for 13 bots"]
       [] n = "AI Bot Blocking" ->
            [score |-> 100, note |-> "Explicit Allow directives for all AI crawlers"]
       [] n = "sitemap.xml" ->
            [score |-> 100, note |-> "Generated sitemap with all discovered URLs"]
       [] n = "llms.txt" ->
            [score |-> 100, note |-> "Site structure per llmstxt.org spec"]
       [] n = "llms-full.txt" ->
            [score |-> 100, note |-> "Full content dump for LLM ingestion"]
       [] n = "AI Policy (ai.txt / ai.json)" ->
            [score |-> 100, note |-> "Machine + human-readable AI policy"]
       [] n = "security.txt" ->
            [score |-> 100, note |-> "RFC 9116 security contact file"]
       [] n = "tdmrep.json" ->
            [score |-> 100, note |-> "Text & data mining rights reservation"]
       [] n = "humans.txt" ->
            [score |-> 100, note |-> "Team and technology credits"]
       [] n = "manifest.json" ->
            [score |-> 100, note |-> "Web app identity manifest"]
       [] n = "Structured Data (JSON-LD)" ->
            [score |-> 85, note |-> "Organization + WebSite schemas"]]

IncludedInPackage == "Included in generated package"

(***************************************************************************)
(* generateProjectedAudit, the map callback (tdmrep-json.ts 307-319)       *)
(***************************************************************************)
projectItemAlways(item) ==
  IF item.name \in DOMAIN PROJECTED_IMPROVEMENTS
    THEN LET improvement == PROJECTED_IMPROVEMENTS[item.name]
         IN [item EXCEPT
               !.score = improvement.score,
               !.status = IF improvement.score >= 70 THEN "pass" ELSE "partial",
               !.details = Text(improvement.note),
               !.recommendation = Text(IncludedInPackage)]
    ELSE item

projectItemAtTarget(item) ==
  IF item.name \in DOMAIN PROJECTED_IMPROVEMENTS
       /\ item.score <= PROJECTED_IMPROVEMENTS[item.name].score
    THEN LET improvement == PROJECTED_IMPROVEMENTS[item.name]
         IN [item EXCEPT
               !.score = improvement.score,
               !.status = IF improvement.score >= 70 THEN "pass" ELSE "partial",
               !.details = Text(improvement.note),
               !.recommendation = Text(IncludedInPackage)]
    ELSE item

projectItemKeepsAdvice(item) ==
  IF item.name \in DOMAIN PROJECTED_IMPROVEMENTS
       /\ item.score < PROJECTED_IMPROVEMENTS[item.name].score
    THEN LET improvement == PROJECTED_IMPROVEMENTS[item.name]
         IN [item EXCEPT
               !.score = improvement.score,
               !.status = IF improvement.score >= 70 THEN "pass" ELSE "partial",
               !.details = Text(improvement.note)]
    ELSE item

projectItemHalfway(item) ==
  IF item.name \in DOMAIN PROJECTED_IMPROVEMENTS
       /\ item.score < PROJECTED_IMPROVEMENTS[item.name].score
    THEN LET improvement == PROJECTED_IMPROVEMENTS[item.name]
         IN [item EXCEPT
               !.score = (item.score + improvement.score + 1) \div 2,
               !.status = IF improvement.score >= 70 THEN "pass" ELSE "partial",
               !.details = Text(improvement.note),
               !.recommendation = Text(IncludedInPackage)]
    ELSE item

projectItemOutOfTarget(item) ==
  IF item.name \in DOMAIN PROJECTED_IMPROVEMENTS
       /\ item.score < PROJECTED_IMPROVEMENTS[item.name].score
    THEN LET improvement == PROJECTED_IMPROVEMENTS[item.name]
         IN [item EXCEPT
               !.score = improvement.score,
               !.maxScore = improvement.score,
               !.status = IF improvement.score >= 70 THEN "pass" ELSE "partial",
               !.details = Text(improvement.note),
               !.recommendation = Text(IncludedInPackage)]
    ELSE item

projectItemSkipsRobots(item) ==
  IF item.name \in DOMAIN PROJECTED_IMPROVEMENTS \ {"robots.txt"}
       /\ item.score < PROJECTED_IMPROVEMENTS[item.name].score
    THEN LET improvement == PROJECTED_IMPROVEMENTS[item.name]
         IN [item EXCEPT
               !.score = improvement.score,
               !.status = IF improvement.score >= 70 THEN "pass" ELSE "partial",
               !.details = Text(improvement.note),
               !.recommendation = Text(IncludedInPackage)]
    ELSE item

projectItem(item) ==
  IF item.name \in DOMAIN PROJECTED_IMPROVEMENTS
       /\ item.score < PROJECTED_IMPROVEMENTS[item.name].score
    THEN LET improvement == PROJECTED_IMPROVEMENTS[item.name]
         IN [item EXCEPT
               !.score = improvement.score,
               !.status = IF improvement.score >= 70 THEN "pass" ELSE "partial",
               !.details = Text(improvement.note),
               !.recommendation = Text(IncludedInPackage)]
    ELSE item

(***************************************************************************)
(* generateProjectedAudit, the re-aggregation (tdmrep-json.ts 321-352).    *)
(* weights[item.category] ?? 1 gives an unknown tier the weight 1 (2 half  *)
(* units); summary[item.category].total++ then reads a property of         *)
(* undefined and raises.                                                   *)
(***************************************************************************)
weightsComparisonUnweighted ==
  [critical |-> 2, high |-> 2, medium |-> 2, low |-> 2]

weightsComparison ==
  [critical |-> 6, high |-> 4, medium |-> 2, low |-> 1]

weightOf(category) ==
  IF category \in DOMAIN weightsComparison THEN weightsComparison[category] ELSE 2

projectedStep(acc, item) ==
  IF acc.raised \/ item.category \notin DOMAIN acc.summary
    THEN [acc EXCEPT !.raised = TRUE]
    ELSE [raised |-> FALSE,
          totalWeightedScore |-> acc.totalWeightedScore + item.score * weightOf(item.category),
          totalWeightedMax |-> acc.totalWeightedMax + item.maxScore * weightOf(item.category),
          summary |-> [acc.summary EXCEPT
             ![item.category] =
               [total |-> @.total + 1,
                passed |-> IF item.status = "pass" \/ item.status = "partial"
                             THEN @.passed + 1 ELSE @.passed]]]

(* for (const item of projectedItems), in list order *)
RECURSIVE projectedLoop(_, _, _, _)
projectedLoop(items, lo, hi, acc) ==
  IF lo > hi THEN acc
  ELSE IF lo = hi THEN projectedStep(acc, items[lo])
  ELSE LET mid == (lo + hi) \div 2
           left == projectedLoop(items, lo, mid, acc)
       IN IF left.totalWeightedMax >= 0
            THEN projectedLoop(items, mid + 1, hi, left)
            ELSE left

(* tdmrep-json.ts 354-361 *)
scoreToGradeComparison(score) ==
  IF score >= 90 THEN "A+"
  ELSE IF score >= 80 THEN "A"
  ELSE IF score >= 70 THEN "B"
  ELSE IF score >= 60 THEN "C"
  ELSE IF score >= 50 THEN "D"
  ELSE "F"

generateProjectedAudit(before) ==
  LET projectedItems == [i \in 1..Len(before.items) |-> projectItem(before.items[i])]
      acc == projectedLoop(projectedItems, 1, Len(projectedItems),
               [raised |-> FALSE, totalWeightedScore |-> 0, totalWeightedMax |-> 0,
                summary |-> emptySummary])
      overallScore ==
        IF acc.totalWeightedMax > 0
          THEN MathRoundPct(acc.totalWeightedScore, acc.totalWeightedMax)
          ELSE 0
  IN IF acc.raised THEN TypeErrorRaised
     ELSE [overallScore |-> overallScore,
           maxPossibleScore |-> 100,
           grade |-> scoreToGradeComparison(overallScore),
           items |-> projectedItems,
           summary |-> acc.summary]


(***************************************************************************)
(* SiteCrawlResult  (crawler/page-data.ts 5-115), as far as auditSite      *)
(* reads it.                                                               *)
(*                                                                         *)
(* A policy file is string | null.  The model keeps a text as the list of  *)
(* its lines, split at '\n' and trimmed as the scans do, and the empty     *)
(* string as the empty list; ! content is true of null and of the empty    *)
(* string.                                                                 *)
(***************************************************************************)
NullFile == [isNull |-> TRUE, lines |-> <<>>]

File(lines) == [isNull |-> FALSE, lines |-> lines]

Truthy(content) == ~content.isNull /\ content.lines # <<>>

TruthyStringUnlessNull(value) == value # NULL

(* string | null fields of a page, null being NULL; !! value *)
TruthyString(value) == value # NULL /\ value # ""

(***************************************************************************)
(* A robots.txt line after trim(): its directive and what follows it.      *)
(*   agent "GPTBot"      User-agent: GPTBot                                *)
(*   disallow "/"        Disallow: /                                       *)
(*   allow "/"           Allow: /                                          *)
(*   comment "ClaudeBot" # ClaudeBot                                       *)
(*   sitemap             Sitemap: https://example.com/sitemap.xml          *)
(*   other               Crawl-delay: 10                                   *)
(*   blank               the empty line                                    *)
(***************************************************************************)
Line(kind, arg) == [kind |-> kind, arg |-> arg]

(* String.prototype.toLowerCase on the agent names that occur *)
toLowerCase(str) ==
  CASE str = "GPTBot" -> "gptbot"
    [] str = "OAI-SearchBot" -> "oai-searchbot"
    [] str = "ChatGPT-User" -> "chatgpt-user"
    [] str = "ClaudeBot" -> "claudebot"
    [] str = "CLAUDEBOT" -> "claudebot"
    [] str = "Claude-SearchBot" -> "claude-searchbot"
    [] str = "Google-Extended" -> "google-extended"
    [] str = "Applebot-Extended" -> "applebot-extended"
    [] str = "Meta-ExternalAgent" -> "meta-externalagent"
    [] str = "PerplexityBot" -> "perplexitybot"
    [] str = "Amazonbot" -> "amazonbot"
    [] str = "CCBot" -> "ccbot"
    [] str = "DuckAssistBot" -> "duckassistbot"
    [] str = "Bytespider" -> "bytespider"
    [] str = "Googlebot" -> "googlebot"
    [] OTHER -> str

(* line.match(/^User-agent:\s*(.+)$/i): the directive with a non-empty name *)
agentMatch(line) == line.kind = "agent" /\ line.arg # ""

disallowMatchAnyPath(line) == line.kind = "disallow" /\ line.arg # ""

(* line.match(/^Disallow:\s*\/\s*$/i) *)
disallowMatch(line) == line.kind = "disallow" /\ line.arg = "/"

(* /^Allow:\s*\/\s*$/i.test(line) *)
allowMatch(line) == line.kind = "allow" /\ line.arg = "/"

(* content.includes(c): the name occurs, spelled as c, on an agent line or *)
(* in a comment                                                            *)
includes(content, c) ==
  \E i \in DOMAIN content.lines :
    content.lines[i].kind \in {"agent", "comment"} /\ content.lines[i].arg = c

(* the elements of a list, each once, in order of first occurrence:        *)
(* [...new Set(list)], and the insertion order of a Set                    *)
UniqueKeepingRepeats(list) == list

RECURSIVE Unique(_)
Unique(list) ==
  IF list = <<>> THEN <<>>
  ELSE LET front == Unique(SubSeq(list, 1, Len(list) - 1))
           last == list[Len(list)]
       IN IF \E i \in DOMAIN front : front[i] = last THEN front
          ELSE Append(front, last)

(***************************************************************************)
(* auditRobotsTxt  (geo-auditor.ts 205-245)                                *)
(***************************************************************************)
keyAiCrawlers ==
  <<"GPTBot", "ClaudeBot", "Google-Extended", "PerplexityBot", "Applebot-Extended">>

auditRobotsTxt(content) ==
  IF ~Truthy(content)
    THEN AuditItem("robots.txt", "critical", 0, "fail",
           Text("No robots.txt found"),
           Text("Add /robots.txt with explicit AI crawler directives (GPTBot, ClaudeBot, PerplexityBot, etc.)"))
  ELSE
    LET Mentioned(c) == includes(content, c)
        NotMentioned(c) == ~includes(content, c)
        mentioned == SelectSeq(keyAiCrawlers, Mentioned)
        score == Min(100 * Len(keyAiCrawlers),
                     30 * Len(keyAiCrawlers) + Len(mentioned) * 70)
    IN IF Len(mentioned) = 0
         THEN AuditItem("robots.txt", "critical", 30, "partial",
                Text("robots.txt exists but has no AI crawler directives"),
                Msg("Add explicit directives for AI crawlers: ", <<>>, keyAiCrawlers))
         ELSE AuditItem("robots.txt", "critical",
                MathRound(score, Len(keyAiCrawlers)),
                IF Len(mentioned) >= 3 THEN "pass" ELSE "partial",
                Msg("robots.txt mentions /  key AI crawlers: ",
                    <<Len(mentioned), Len(keyAiCrawlers)>>, mentioned),
                IF Len(mentioned) < Len(keyAiCrawlers)
                  THEN Msg("Add directives for: ", <<>>,
                           SelectSeq(keyAiCrawlers, NotMentioned))
                  ELSE Text("robots.txt has comprehensive AI crawler coverage"))

(***************************************************************************)
(* auditSitemap  (geo-auditor.ts 247-278).  The text is the list of its    *)
(* tags; content.match(/<loc>/g) counts the <loc> tags.                    *)
(***************************************************************************)
auditSitemap(content, pageCount) ==
  IF ~Truthy(content)
    THEN AuditItem("sitemap.xml", "critical", 0, "fail",
           Text("No sitemap.xml found"),
           Text("Add /sitemap.xml with all discoverable URLs"))
  ELSE
    LET urlCount == Cardinality({i \in DOMAIN content.lines : content.lines[i] = "<loc>"})
        hasLastmod == \E i \in DOMAIN content.lines : content.lines[i] = "<lastmod>"
        score == 50 + (IF urlCount > 0 THEN 25 ELSE 0) + (IF hasLastmod THEN 25 ELSE 0)
    IN AuditItem("sitemap.xml", "critical", score,
         IF score >= 75 THEN "pass" ELSE "partial",
         Msg(IF hasLastmod THEN "Sitemap contains  URLs with lastmod dates. Crawled  pages."
                           ELSE "Sitemap contains  URLs (no lastmod). Crawled  pages.",
             <<urlCount, pageCount>>, <<>>),
         IF ~hasLastmod
           THEN Text("Add <lastmod> dates to sitemap entries for freshness signals")
           ELSE Text("Sitemap is well-configured"))

(***************************************************************************)
(* auditLlmsTxt  (geo-auditor.ts 280-315).  A line of llms.txt is its      *)
(* markdown prefix ("# ", "> ", "## " or none) and the rest of the line;   *)
(* /^# .+/m needs the prefix and at least one more character.              *)
(***************************************************************************)
MdLine(prefix, rest) == [prefix |-> prefix, rest |-> rest]

auditLlmsTxt(content) ==
  IF ~Truthy(content)
    THEN AuditItem("llms.txt", "critical", 0, "fail",
           Text("No llms.txt found"),
           Text("Add /llms.txt following the llmstxt.org spec: H1 site name, blockquote summary, H2 sections with link lists"))
  ELSE
    LET Starts(prefix) ==
          \E i \in DOMAIN content.lines :
            content.lines[i].prefix = prefix /\ content.lines[i].rest # ""
        hasH1 == Starts("# ")
        hasBlockquote == Starts("> ")
        hasH2 == Starts("## ")
        hasLinks == \E i \in DOMAIN content.lines : content.lines[i].rest = "[Page](url)"
        score == 40 + (IF hasH1 THEN 15 ELSE 0) + (IF hasBlockquote THEN 15 ELSE 0)
                    + (IF hasH2 THEN 15 ELSE 0) + (IF hasLinks THEN 15 ELSE 0)
        yesNo(b) == IF b THEN "yes" ELSE "no"
    IN AuditItem("llms.txt", "critical", score,
         IF score >= 70 THEN "pass" ELSE "partial",
         Msg("llms.txt found - H1: , Blockquote: , H2 sections: , Links: ", <<>>,
             <<yesNo(hasH1), yesNo(hasBlockquote), yesNo(hasH2), yesNo(hasLinks)>>),
         IF score < 100
           THEN Text("Ensure llms.txt has: # Site Name, > summary blockquote, ## Sections with [link](url) lists")
           ELSE Text("llms.txt follows the spec correctly"))

(***************************************************************************)
(* The simple presence checks of auditSite (geo-auditor.ts 60-73, 92-120,  *)
(* 128-158): llms-full.txt, security.txt, tdmrep.json, manifest.json,      *)
(* humans.txt.                                                             *)
(***************************************************************************)
presenceItemNamedByKind(name, category, content, found, missing, good, advice) ==
  AuditItem("GEO file", category,
    IF Truthy(content) THEN 100 ELSE 0,
    IF Truthy(content) THEN "pass" ELSE "fail",
    IF Truthy(content) THEN found ELSE missing,
    IF Truthy(content) THEN good ELSE advice)

presenceItem(name, category, content, found, missing, good, advice) ==
  AuditItem(name, category,
    IF Truthy(content) THEN 100 ELSE 0,
    IF Truthy(content) THEN "pass" ELSE "fail",
    IF Truthy(content) THEN found ELSE missing,
    IF Truthy(content) THEN good ELSE advice)

(***************************************************************************)
(* auditAiPolicy  (geo-auditor.ts 395-427)                                 *)
(***************************************************************************)
auditAiPolicy(aiTxt, aiJson) ==
  LET hasTxt == Truthy(aiTxt)
      hasJson == Truthy(aiJson)
      score == (IF hasTxt THEN 50 ELSE 0) + (IF hasJson THEN 50 ELSE 0)
      state(b) == IF b THEN "found" ELSE "missing"
  IN IF ~hasTxt /\ ~hasJson
       THEN AuditItem("AI Policy (ai.txt / ai.json)", "high", 0, "fail",
              Text("No ai.txt or ai.json found"),
              Text("Add /ai.txt and /ai.json to define AI interaction permissions, restrictions, and attribution requirements"))
       ELSE AuditItem("AI Policy (ai.txt / ai.json)", "high", score,
              IF hasTxt /\ hasJson THEN "pass" ELSE "partial",
              Msg("ai.txt: , ai.json: ", <<>>, <<state(hasTxt), state(hasJson)>>),
              IF ~hasTxt THEN Text("Add /ai.txt for human-readable AI policy")
              ELSE IF ~hasJson THEN Text("Add /ai.json for machine-parseable AI policy")
              ELSE Text("Both AI policy files are present"))

(***************************************************************************)
(* auditAiBotBlocking and hasExplicitAllow  (geo-auditor.ts 562-661)       *)
(***************************************************************************)
aiCrawlers ==
  <<"GPTBot", "OAI-SearchBot", "ChatGPT-User", "ClaudeBot", "Claude-SearchBot",
    "Google-Extended", "Applebot-Extended", "Meta-ExternalAgent", "PerplexityBot",
    "Amazonbot", "CCBot", "DuckAssistBot", "Bytespider">>

(* lines 648-660: inBotBlock after the first n lines, and whether an       *)
(* Allow: / was met inside the block                                       *)
RECURSIVE explicitAllowScan(_, _, _)
explicitAllowScan(lines, n, botName) ==
  IF n = 0 THEN [inBotBlock |-> FALSE, found |-> FALSE]
  ELSE LET st == explicitAllowScan(lines, n - 1, botName)
           line == lines[n]
       IN IF st.found THEN st
          ELSE IF agentMatch(line)
            THEN [st EXCEPT !.inBotBlock = toLowerCase(line.arg) = toLowerCase(botName)]
          ELSE IF st.inBotBlock /\ allowMatch(line)
            THEN [st EXCEPT !.found = TRUE]
          ELSE IF line.kind # "comment" /\ line.kind # "blank"
            THEN [st EXCEPT !.inBotBlock = FALSE]
          ELSE st

hasExplicitAllow(robotsTxt, botName) ==
  explicitAllowScan(robotsTxt.lines, Len(robotsTxt.lines), botName).found

(* lines 596-609: the bots one Disallow: / adds for the agents of the group *)
RECURSIVE blockedByAgents(_, _, _)
blockedByAgents(content, agents, n) ==
  IF n = 0 THEN <<>>
  ELSE LET before == blockedByAgents(content, agents, n - 1)
           agent == agents[n]
           NotAllowed(bot) == ~hasExplicitAllow(content, bot)
           Matches(bot) == toLowerCase(bot) = toLowerCase(agent)
           matched == SelectSeq(aiCrawlers, Matches)
       IN IF agent = "*"
            THEN before \o SelectSeq(aiCrawlers, NotAllowed)
            ELSE IF matched # <<>> THEN Append(before, matched[1]) ELSE before

RECURSIVE blockingScanNeverClearing(_, _)
blockingScanNeverClearing(content, n) ==
  IF n = 0 THEN [currentAgents |-> <<>>, blockedBots |-> <<>>]
  ELSE LET st == blockingScanNeverClearing(content, n - 1)
           line == content.lines[n]
       IN IF agentMatch(line)
            THEN [st EXCEPT !.currentAgents = Append(@, line.arg)]
          ELSE
            [st EXCEPT !.blockedBots =
               IF disallowMatch(line) /\ Len(st.currentAgents) > 0
                 THEN @ \o blockedByAgents(content, st.currentAgents, Len(st.currentAgents))
                 ELSE @]

(* lines 585-616: currentAgents and blockedBots after the first n lines *)
RECURSIVE blockingScan(_, _)
blockingScan(content, n) ==
  IF n = 0 THEN [currentAgents |-> <<>>, blockedBots |-> <<>>]
  ELSE LET st == blockingScan(content, n - 1)
           line == content.lines[n]
       IN IF agentMatch(line)
            THEN [st EXCEPT !.currentAgents = Append(@, line.arg)]
          ELSE
            LET blocked ==
                  IF disallowMatch(line) /\ Len(st.currentAgents) > 0
                    THEN st.blockedBots \o
                           blockedByAgents(content, st.currentAgents, Len(st.currentAgents))
                    ELSE st.blockedBots
            IN [currentAgents |->
                  IF line.kind # "comment" /\ line.kind # "blank"
                    THEN <<>> ELSE st.currentAgents,
                blockedBots |-> blocked]

auditAiBotBlocking(content) ==
  IF ~Truthy(content)
    THEN AuditItem("AI Bot Blocking", "critical", 100, "pass",
           Text("No robots.txt found - AI bots are not blocked (but consider adding one with explicit Allow directives)"),
           Text("Add /robots.txt with explicit \"Allow: /\" for AI crawlers to signal openness"))
  ELSE
    LET uniqueBlocked == Unique(blockingScan(content, Len(content.lines)).blockedBots)
        score == MathRound(Max(0, (Len(aiCrawlers) - Len(uniqueBlocked)) * 100),
                           Len(aiCrawlers))
    IN IF Len(uniqueBlocked) = 0
         THEN AuditItem("AI Bot Blocking", "critical", 100, "pass",
                Text("No AI crawlers are blocked in robots.txt"),
                Text("robots.txt does not block AI crawlers - good!"))
         ELSE AuditItem("AI Bot Blocking", "critical", score,
                IF 2 * Len(uniqueBlocked) > Len(aiCrawlers) THEN "fail" ELSE "partial",
                Msg("/ AI crawlers are blocked: ",
                    <<Len(uniqueBlocked), Len(aiCrawlers)>>, uniqueBlocked),
                Msg("Remove \"Disallow: /\" for these AI crawlers to allow indexing: . 5.9% of sites accidentally block GPTBot.",
                    <<>>, uniqueBlocked))

(***************************************************************************)
(* PageData  (crawler/page-data.ts 5-86), as far as auditSite reads it.    *)
(*   meta.description            null, or a text known by its length       *)
(*   meta.ogTitle, ogDescription, canonical, googleVerification,           *)
(*   bingVerification            null (NULL), "" or a text                 *)
(*   meta.robots, responseHeaders['x-robots-tag']                          *)
(*                               null/undefined (NULL) or the header text  *)
(*   meta.modifiedDate, meta.publishedDate, lastModified                   *)
(*                               a date string, see DateString             *)
(*   content.wordCount, content.headings (the levels), content.faqItems    *)
(*   (their number), existingStructuredData.jsonLd (type and whether a     *)
(*   dateModified or datePublished is set)                                 *)
(* Time is counted in days since the epoch.                                *)
(***************************************************************************)
NullDescription == [isNull |-> TRUE, length |-> 0]

Description(length) == [isNull |-> FALSE, length |-> length]

(* a date string: null, '', a text Date cannot parse, or a parsable date *)
DateString(kind, day) == [kind |-> kind, day |-> day]

NoDate == DateString("null", 0)

TruthyDate(dateStr) == dateStr.kind \notin {"null", "empty"}

(* new Date(dateStr).getTime(): NaN for a text that is no date *)
getTime(dateStr) == IF dateStr.kind = "date" THEN dateStr.day ELSE NaN

isNaN(ts) == ts = NaN

(* 365 * 24 * 60 * 60 * 1000 ms, in days *)
twelveMonthsMs == 365

(* (text || '').toLowerCase().includes(directive), on the header texts     *)
(* that occur                                                              *)
lowerIncludes(text, directive) ==
  CASE text = NULL -> FALSE
    [] text = "index, follow" -> FALSE
    [] text = "NOINDEX, nofollow" -> directive = "noindex"
    [] text = "noindex" -> directive = "noindex"
    [] text = "max-snippet:-1" -> directive = "max-snippet"
    [] text = "Max-Image-Preview:large" -> directive = "max-image-preview"
    [] text = "max-snippet:-1, max-image-preview:large" ->
         directive \in {"max-snippet", "max-image-preview"}
    [] OTHER -> FALSE

JsonLd(type, dated) == [type |-> type, dated |-> dated]

(* (item['@type'] as string) || 'unknown' *)
typeOf(item) == IF item.type = "" THEN "unknown" ELSE item.type

RECURSIVE Sum(_)
Sum(numbers) ==
  IF numbers = <<>> THEN 0
  ELSE Sum(SubSeq(numbers, 1, Len(numbers) - 1)) + numbers[Len(numbers)]

coverageStatusAboveHalf(a, n) ==
  IF n > 0 /\ 10 * a >= 8 * n THEN "pass"
  ELSE IF n > 0 /\ 2 * a > n THEN "partial"
  ELSE "fail"

(* the thresholds coverage >= 0.8 and coverage >= 0.5 on coverage = a / n, *)
(* coverage being 0 when n is 0                                            *)
coverageStatus(a, n) ==
  IF n > 0 /\ 10 * a >= 8 * n THEN "pass"
  ELSE IF n > 0 /\ 2 * a >= n THEN "partial"
  ELSE "fail"

(* Math.round(coverage * 100) with coverage = n > 0 ? a / n : 0 *)
coverageScore(a, n) == IF n > 0 THEN MathRound(a * 100, n) ELSE 0

(***************************************************************************)
(* auditStructuredData  (geo-auditor.ts 317-368)                           *)
(***************************************************************************)
(* the @type of every JSON-LD item, page by page: the order in which the   *)
(* loop of lines 323-332 adds them to schemaTypes                          *)
RECURSIVE typesInOrder(_)
typesInOrder(pages) ==
  IF pages = <<>> THEN <<>>
  ELSE LET jsonLd == pages[Len(pages)].existingStructuredData.jsonLd
       IN typesInOrder(SubSeq(pages, 1, Len(pages) - 1))
            \o [j \in DOMAIN jsonLd |-> typeOf(jsonLd[j])]

auditStructuredData(crawlResult) ==
  LET pages == crawlResult.pages
      HasJsonLd(page) == Len(page.existingStructuredData.jsonLd) > 0
      Items(page) == Len(page.existingStructuredData.jsonLd)
      pagesWithJsonLd == Cardinality({i \in DOMAIN pages : HasJsonLd(pages[i])})
      totalJsonLdItems == Sum([i \in DOMAIN pages |-> Items(pages[i])])
      schemaTypes == Unique(typesInOrder(pages))
      has(type) == \E i \in DOMAIN schemaTypes : schemaTypes[i] = type
      hasOrganization == has("Organization")
      hasWebSite == has("WebSite")
      score == Min(50, IF Len(pages) > 0 THEN MathRound(pagesWithJsonLd * 50, Len(pages)) ELSE 0)
                 + (IF hasOrganization THEN 20 ELSE 0)
                 + (IF hasWebSite THEN 15 ELSE 0)
                 + (IF Len(schemaTypes) >= 3 THEN 15 ELSE 0)
  IN IF totalJsonLdItems = 0
       THEN AuditItem("Structured Data (JSON-LD)", "critical", 0, "fail",
              Text("No JSON-LD structured data found on any page"),
              Text("Add JSON-LD Schema.org markup: Organization on homepage, Article on blog posts, FAQPage on FAQ sections, Product on product pages"))
       ELSE AuditItem("Structured Data (JSON-LD)", "critical", Min(100, score),
              IF score >= 60 THEN "pass" ELSE "partial",
              Msg("/ pages have JSON-LD ( total items). Types: ",
                  <<pagesWithJsonLd, Len(pages), totalJsonLdItems>>,
                  schemaTypes),
              IF ~hasOrganization
                THEN Text("Add Organization schema to homepage for entity disambiguation")
              ELSE IF 2 * pagesWithJsonLd < Len(pages)
                THEN Text("Increase JSON-LD coverage - aim for structured data on every significant page")
              ELSE Text("Good structured data coverage"))

(***************************************************************************)
(* auditServerRendering  (geo-auditor.ts 370-393)                          *)
(***************************************************************************)
auditServerRenderingUnguarded(crawlResult) ==
  LET pages == crawlResult.pages
      Rendered(page) == page.content.wordCount > 50
      ssrPages == Cardinality({i \in DOMAIN pages : Rendered(pages[i])})
  IN AuditItem("Server-side Rendering", "critical",
       MathRound(ssrPages * 100, Len(pages)),
       coverageStatus(ssrPages, Len(pages)),
       Msg("/ pages have server-rendered content (>50 words without JS)",
           <<ssrPages, Len(pages)>>, <<>>),
       IF coverageStatus(ssrPages, Len(pages)) # "pass"
         THEN Text("AI crawlers cannot execute JavaScript - ensure content is in initial HTML response via SSR/SSG")
         ELSE Text("Content renders without JavaScript - good!"))

auditServerRendering(crawlResult) ==
  LET pages == crawlResult.pages
      Rendered(page) == page.content.wordCount > 50
      ssrPages == Cardinality({i \in DOMAIN pages : Rendered(pages[i])})
  IN AuditItem("Server-side Rendering", "critical",
       coverageScore(ssrPages, Len(pages)),
       coverageStatus(ssrPages, Len(pages)),
       Msg("/ pages have server-rendered content (>50 words without JS)",
           <<ssrPages, Len(pages)>>, <<>>),
       IF coverageStatus(ssrPages, Len(pages)) # "pass"
         THEN Text("AI crawlers cannot execute JavaScript - ensure content is in initial HTML response via SSR/SSG")
         ELSE Text("Content renders without JavaScript - good!"))

(***************************************************************************)
(* auditMetaDescriptions  (geo-auditor.ts 429-453)                         *)
(***************************************************************************)
auditMetaDescriptions(crawlResult) ==
  LET pages == crawlResult.pages
      Described(page) ==
        /\ ~page.meta.description.isNull
        /\ page.meta.description.length > 0
        /\ page.meta.description.length >= 30
      withDescription == Cardinality({i \in DOMAIN pages : Described(pages[i])})
  IN AuditItem("Meta Descriptions", "high",
       coverageScore(withDescription, Len(pages)),
       coverageStatus(withDescription, Len(pages)),
       Msg("/ pages have meta descriptions (>=30 chars)",
           <<withDescription, Len(pages)>>, <<>>),
       IF coverageStatus(withDescription, Len(pages)) # "pass"
         THEN Text("Add meaningful meta descriptions to all pages - AI engines use these for summaries and citations")
         ELSE Text("Good meta description coverage"))

(***************************************************************************)
(* auditHeadingHierarchy  (geo-auditor.ts 455-493)                         *)
(***************************************************************************)
auditHeadingHierarchy(crawlResult) ==
  LET pages == crawlResult.pages
      Correct(page) ==
        LET headings == page.content.headings
            h1Count == Cardinality({i \in DOMAIN headings : headings[i] = 1})
            noSkips == \A i \in 2..Len(headings) : headings[i] <= headings[i - 1] + 1
        IN Len(headings) # 0 /\ h1Count = 1 /\ noSkips
      WithHeadings(page) == Len(page.content.headings) > 0
      correctHierarchy == Cardinality({i \in DOMAIN pages : Correct(pages[i])})
      pagesWithHeadings == Cardinality({i \in DOMAIN pages : WithHeadings(pages[i])})
  IN AuditItem("Heading Hierarchy", "high",
       coverageScore(correctHierarchy, pagesWithHeadings),
       coverageStatus(correctHierarchy, pagesWithHeadings),
       Msg("/ pages with headings have correct H1>H2>H3 hierarchy",
           <<correctHierarchy, pagesWithHeadings>>, <<>>),
       IF coverageStatus(correctHierarchy, pagesWithHeadings) # "pass"
         THEN Text("Fix heading hierarchy: single H1, no skipped levels (H1>H2>H3). LLMs use headings to understand content structure.")
         ELSE Text("Heading hierarchy is clean"))

(***************************************************************************)
(* auditOpenGraph  (geo-auditor.ts 495-517)                                *)
(***************************************************************************)
auditOpenGraph(crawlResult) ==
  LET pages == crawlResult.pages
      HasOG(page) == TruthyString(page.meta.ogTitle) /\ TruthyString(page.meta.ogDescription)
      withOG == Cardinality({i \in DOMAIN pages : HasOG(pages[i])})
  IN AuditItem("Open Graph Tags", "medium",
       coverageScore(withOG, Len(pages)),
       coverageStatus(withOG, Len(pages)),
       Msg("/ pages have OG title + description", <<withOG, Len(pages)>>, <<>>),
       IF coverageStatus(withOG, Len(pages)) # "pass"
         THEN Text("Add og:title and og:description to all pages for rich previews in AI responses")
         ELSE Text("Good Open Graph coverage"))

(***************************************************************************)
(* auditAiContentDirectives  (geo-auditor.ts 519-560)                      *)
(***************************************************************************)
auditAiContentDirectives(crawlResult) ==
  LET pages == crawlResult.pages
      Has(page, directive) ==
        \/ lowerIncludes(page.meta.robots, directive)
        \/ lowerIncludes(page.responseHeaders.xRobotsTag, directive)
      HasMaxSnippet(page) == Has(page, "max-snippet")
      HasMaxImagePreview(page) == Has(page, "max-image-preview")
      withMaxSnippet == Cardinality({i \in DOMAIN pages : HasMaxSnippet(pages[i])})
      withMaxImagePreview == Cardinality({i \in DOMAIN pages : HasMaxImagePreview(pages[i])})
      hasDirectives == withMaxSnippet > 0 \/ withMaxImagePreview > 0
      most == Max(withMaxSnippet, withMaxImagePreview)
      points == (IF withMaxSnippet > 0 THEN 50 ELSE 0)
                  + (IF withMaxImagePreview > 0 THEN 50 ELSE 0)
      (* Math.round(score * Math.max(coverage, hasDirectives ? 0.5 : 0)) *)
      score ==
        IF ~hasDirectives THEN 0
        ELSE IF 2 * most >= Len(pages) THEN MathRound(points * most, Len(pages))
        ELSE MathRound(points, 2)
  IN AuditItem("AI Content Directives", "medium", score,
       IF score >= 60 THEN "pass" ELSE IF score > 0 THEN "partial" ELSE "fail",
       IF hasDirectives
         THEN Msg("max-snippet on  pages, max-image-preview on  pages",
                  <<withMaxSnippet, withMaxImagePreview>>, <<>>)
         ELSE Text("No max-snippet or max-image-preview directives found"),
       IF ~hasDirectives
         THEN Text("Add <meta name=\"robots\" content=\"max-snippet:-1, max-image-preview:large\"> to allow AI engines to use full content in responses")
       ELSE IF 10 * most < 8 * Len(pages)
         THEN Text("Increase coverage of max-snippet and max-image-preview across all pages")
       ELSE Text("AI content directives are well-configured"))

(***************************************************************************)
(* auditContentFreshness  (geo-auditor.ts 663-724); dateNow is Date.now()  *)
(***************************************************************************)
auditContentFreshness(crawlResult, dateNow) ==
  LET pages == crawlResult.pages
      dateStr(page) ==
        IF TruthyDate(page.meta.modifiedDate) THEN page.meta.modifiedDate
        ELSE IF TruthyDate(page.meta.publishedDate) THEN page.meta.publishedDate
        ELSE page.lastModified
      WithDate(page) == TruthyDate(dateStr(page))
      Recent(page) ==
        /\ WithDate(page)
        /\ ~isNaN(getTime(dateStr(page)))
        /\ dateNow - getTime(dateStr(page)) < twelveMonthsMs
      WithJsonLdDate(page) ==
        \E j \in DOMAIN page.existingStructuredData.jsonLd :
          page.existingStructuredData.jsonLd[j].dated
      pagesWithDate == Cardinality({i \in DOMAIN pages : WithDate(pages[i])})
      pagesRecent == Cardinality({i \in DOMAIN pages : Recent(pages[i])})
      pagesWithJsonLdDate == Cardinality({i \in DOMAIN pages : WithJsonLdDate(pages[i])})
      n == Len(pages)
      (* dateCoverage * 50 + recencyRatio * 30 + jsonLdDateRatio * 20 *)
      score ==
        Min(100,
            IF pagesWithDate > 0
              THEN MathRound(50 * pagesWithDate * pagesWithDate + 30 * pagesRecent * n
                               + 20 * pagesWithJsonLdDate * pagesWithDate,
                             n * pagesWithDate)
              ELSE MathRound(20 * pagesWithJsonLdDate, n))
  IN IF n = 0
       THEN AuditItem("Content Freshness", "high", 0, "not_applicable",
              Text("No pages crawled"),
              Text("Crawl pages to assess content freshness"))
       ELSE AuditItem("Content Freshness", "high", score,
              IF score >= 60 THEN "pass" ELSE IF score > 0 THEN "partial" ELSE "fail",
              Msg("/ pages have date signals,  updated within 12 months,  with JSON-LD dates",
                  <<pagesWithDate, n, pagesRecent, pagesWithJsonLdDate>>, <<>>),
              IF score < 60
                THEN Text("Add dateModified to JSON-LD and keep content updated - AI-cited content is 25.7% fresher than traditional results")
                ELSE Text("Content freshness signals are strong"))

(***************************************************************************)
(* auditContentDepth  (geo-auditor.ts 726-777)                             *)
(***************************************************************************)
auditContentDepth(crawlResult) ==
  LET pages == crawlResult.pages
      Thin(page) == page.content.wordCount < 300
      Substantive(page) == page.content.wordCount > 500
      WellStructured(page) == Substantive(page) /\ Len(page.content.headings) >= 3
      thinPages == Cardinality({i \in DOMAIN pages : Thin(pages[i])})
      substantivePages == Cardinality({i \in DOMAIN pages : Substantive(pages[i])})
      wellStructured == Cardinality({i \in DOMAIN pages : WellStructured(pages[i])})
      n == Len(pages)
      (* (1 - thinRatio) * 30 + depthRatio * 40 + structureRatio * 30 *)
      score ==
        Min(100,
            IF substantivePages > 0
              THEN MathRound(30 * (n - thinPages) * substantivePages
                               + 40 * substantivePages * substantivePages
                               + 30 * wellStructured * n,
                             n * substantivePages)
              ELSE MathRound(30 * (n - thinPages), n))
  IN IF n = 0
       THEN AuditItem("Content Structure & Depth", "high", 0, "not_applicable",
              Text("No pages crawled"),
              Text("Crawl pages to assess content depth"))
       ELSE AuditItem("Content Structure & Depth", "high", score,
              IF score >= 60 THEN "pass" ELSE IF score > 0 THEN "partial" ELSE "fail",
              Msg("/ pages >500 words,  well-structured (>=3 headings),  thin pages (<300 words)",
                  <<substantivePages, n, wellStructured, thinPages>>, <<>>),
              IF score < 60
                THEN Text("Add more substantive content (>500 words) with clear heading structure (>=3 headings). AI engines chunk content by paragraphs under headings.")
                ELSE Text("Content depth and structure are solid"))

(***************************************************************************)
(* auditSearchIndexing  (geo-auditor.ts 779-865)                           *)
(***************************************************************************)
auditSearchIndexing(crawlResult) ==
  LET pages == crawlResult.pages
      existingGeoFiles == crawlResult.existingGeoFiles
      hasGoogleVerification ==
        \E i \in DOMAIN pages : TruthyString(pages[i].meta.googleVerification)
      hasBingMetaTag ==
        \E i \in DOMAIN pages : TruthyString(pages[i].meta.bingVerification)
      hasBingSiteAuth == Truthy(existingGeoFiles.bingSiteAuth)
      (* /^Sitemap:/im.test(existingGeoFiles.robotsTxt || '') *)
      hasSitemapInRobots ==
        /\ Truthy(existingGeoFiles.robotsTxt)
        /\ \E i \in DOMAIN existingGeoFiles.robotsTxt.lines :
             existingGeoFiles.robotsTxt.lines[i].kind = "sitemap"
      NoIndex(page) ==
        \/ lowerIncludes(page.meta.robots, "noindex")
        \/ lowerIncludes(page.responseHeaders.xRobotsTag, "noindex")
      noindexPages == Cardinality({i \in DOMAIN pages : NoIndex(pages[i])})
      HasCanonical(page) == TruthyString(page.meta.canonical)
      pagesWithCanonical == Cardinality({i \in DOMAIN pages : HasCanonical(pages[i])})
      n == Len(pages)
      canonicalFull == n > 0 /\ 10 * pagesWithCanonical >= 8 * n
      canonicalSome == n > 0 /\ pagesWithCanonical > 0
      score ==
        (IF hasGoogleVerification THEN 20 ELSE 0)
          + (IF hasBingMetaTag \/ hasBingSiteAuth THEN 20 ELSE 0)
          + (IF hasSitemapInRobots THEN 20 ELSE 0)
          + (IF noindexPages = 0 THEN 20 ELSE 0)
          + (IF canonicalFull THEN 20
             ELSE IF canonicalSome THEN MathRound(20 * pagesWithCanonical, n)
             ELSE 0)
      signals ==
        (IF hasGoogleVerification THEN <<"Google Search Console verification">> ELSE <<>>)
          \o (IF hasBingMetaTag /\ hasBingSiteAuth
                THEN <<"Bing Webmaster Tools verification (meta tag + BingSiteAuth.xml)">>
              ELSE IF hasBingMetaTag
                THEN <<"Bing Webmaster Tools verification (meta tag)">>
              ELSE IF hasBingSiteAuth
                THEN <<"Bing Webmaster Tools verification (BingSiteAuth.xml)">>
              ELSE <<>>)
          \o (IF hasSitemapInRobots THEN <<"Sitemap in robots.txt">> ELSE <<>>)
          \o (IF noindexPages = 0 THEN <<"No noindex pages">> ELSE <<>>)
          \o (IF canonicalFull THEN <<"Canonical URLs set (/ pages)">> ELSE <<>>)
      missing ==
        (IF hasGoogleVerification THEN <<>> ELSE <<"Google Search Console verification tag">>)
          \o (IF hasBingMetaTag \/ hasBingSiteAuth THEN <<>>
              ELSE <<"Bing Webmaster Tools verification (meta tag or BingSiteAuth.xml)">>)
          \o (IF hasSitemapInRobots THEN <<>> ELSE <<"Sitemap directive in robots.txt">>)
          \o (IF noindexPages = 0 THEN <<>> ELSE <<" page(s) with noindex">>)
          \o (IF canonicalFull THEN <<>>
              ELSE IF canonicalSome THEN <<"Canonical URLs on only / pages">>
              ELSE <<"No canonical URLs set">>)
      counts == <<noindexPages, pagesWithCanonical, n>>
  IN AuditItem("Search Engine Indexing", "critical", score,
       IF score = 100 THEN "pass" ELSE IF score >= 50 THEN "partial" ELSE "fail",
       IF Len(signals) > 0
         THEN Msg(IF Len(missing) > 0 THEN "Indexing signals found: . Missing: "
                                      ELSE "Indexing signals found: ",
                  counts, signals \o missing)
         ELSE Msg("No indexing signals found. Missing: ", counts, missing),
       IF score = 100
         THEN Text("All search engine indexing signals are present - your site is well-configured for discovery")
       ELSE IF score >= 50
         THEN Msg("Partial indexing setup. Add missing signals: ", counts, missing)
       ELSE Text("Your site is likely not indexed by search engines. Set up Google Search Console and Bing Webmaster Tools, add a Sitemap directive to robots.txt, set canonical URLs, and remove any noindex tags"))

(***************************************************************************)
(* auditFAQContent  (geo-auditor.ts 867-918)                               *)
(***************************************************************************)
auditFAQContent(crawlResult) ==
  LET pages == crawlResult.pages
      HasFAQ(page) == page.content.faqItems > 0
      totalFAQs == Sum([i \in DOMAIN pages |-> pages[i].content.faqItems])
      pagesWithFAQ == Cardinality({i \in DOMAIN pages : HasFAQ(pages[i])})
      hasFAQPageSchema ==
        \E i \in DOMAIN pages :
          \E j \in DOMAIN pages[i].existingStructuredData.jsonLd :
            pages[i].existingStructuredData.jsonLd[j].type = "FAQPage"
      score == Min(100, Min(60, totalFAQs * 15) + (IF hasFAQPageSchema THEN 40 ELSE 0))
  IN IF totalFAQs = 0
       THEN AuditItem("FAQ Content", "low", 0, "fail",
              Text("No FAQ content detected on any page"),
              Text("Add FAQ sections to high-traffic pages. FAQPage schema has the highest AI citation probability."))
       ELSE AuditItem("FAQ Content", "low", score,
              IF score >= 60 THEN "pass" ELSE "partial",
              Msg(IF hasFAQPageSchema THEN " FAQ items on  pages with FAQPage schema"
                                      ELSE " FAQ items on  pages (no FAQPage schema)",
                  <<totalFAQs, pagesWithFAQ>>, <<>>),
              IF ~hasFAQPageSchema
                THEN Text("Add FAQPage JSON-LD schema markup alongside FAQ content for maximum AI citation rates")
              ELSE IF totalFAQs < 5
                THEN Text("Add more FAQ content to additional high-traffic pages")
              ELSE Text("FAQ content with schema markup detected - good!"))

(***************************************************************************)
(* auditSite  (geo-auditor.ts 31-194); dateNow is what Date.now() returns  *)
(* during the call.  The length of llms-full.txt is reported in lines.     *)
(***************************************************************************)
auditSiteItems(crawlResult, dateNow) ==
  LET existingGeoFiles == crawlResult.existingGeoFiles
      pages == crawlResult.pages
  IN << auditRobotsTxt(existingGeoFiles.robotsTxt),
        auditSitemap(existingGeoFiles.sitemapXml, Len(pages)),
        auditLlmsTxt(existingGeoFiles.llmsTxt),
        auditStructuredData(crawlResult),
        auditServerRendering(crawlResult),
        auditAiBotBlocking(existingGeoFiles.robotsTxt),
        auditSearchIndexing(crawlResult),
        presenceItem("llms-full.txt", "high", existingGeoFiles.llmsFullTxt,
          Msg("Found llms-full.txt ( chars)", <<Len(existingGeoFiles.llmsFullTxt.lines)>>, <<>>),
          Text("No llms-full.txt found"),
          Text("llms-full.txt is present - good!"),
          Text("Add /llms-full.txt with complete site content in markdown for bulk LLM ingestion")),
        auditAiPolicy(existingGeoFiles.aiTxt, existingGeoFiles.aiJson),
        auditMetaDescriptions(crawlResult),
        auditHeadingHierarchy(crawlResult),
        auditContentFreshness(crawlResult, dateNow),
        auditContentDepth(crawlResult),
        presenceItem("security.txt", "medium", existingGeoFiles.securityTxt,
          Text("security.txt found at /.well-known/security.txt"),
          Text("No security.txt found"),
          Text("RFC 9116 security.txt is present"),
          Text("Add /.well-known/security.txt per RFC 9116 with security contact info")),
        presenceItem("tdmrep.json", "medium", existingGeoFiles.tdmrepJson,
          Text("TDM reservation found"),
          Text("No TDM reservation found"),
          Text("W3C TDM reservation is present"),
          Text("Add /.well-known/tdmrep.json to define text/data mining rights")),
        auditOpenGraph(crawlResult),
        auditAiContentDirectives(crawlResult),
        presenceItem("manifest.json", "medium", existingGeoFiles.manifestJson,
          Text("Web manifest found"),
          Text("No web manifest found"),
          Text("Web manifest is present"),
          Text("Add manifest.json for site identity metadata")),
        presenceItem("humans.txt", "low", existingGeoFiles.humansTxt,
          Text("humans.txt found"),
          Text("No humans.txt found"),
          Text("humans.txt is present"),
          Text("Add /humans.txt for team and technology info")),
        auditFAQContent(crawlResult) >>

auditSite(crawlResult, dateNow) == auditSiteResult(auditSiteItems(crawlResult, dateNow))

(***************************************************************************)
(* Hand-built AuditResults, as the unit tests build them                   *)
(* (__tests__/fixtures.ts 4-57): createMockAuditItem gives every item      *)
(* maxScore 100 and the details / recommendation below, and                *)
(* createMockAuditResult names each item with the tier auditSite gives it. *)
(***************************************************************************)
MaxItems == 2

MockNames ==
  {"robots.txt", "Structured Data (JSON-LD)", "Meta Descriptions",
   "security.txt", "humans.txt"}

MockScores == {0, 29, 100}

mockCategory(name) ==
  CASE name \in {"robots.txt", "sitemap.xml", "llms.txt", "Structured Data (JSON-LD)",
                 "Server-side Rendering", "AI Bot Blocking"} -> "critical"
    [] name \in {"llms-full.txt", "AI Policy (ai.txt / ai.json)", "Meta Descriptions",
                 "Heading Hierarchy", "Content Freshness",
                 "Content Structure & Depth"} -> "high"
    [] name \in {"humans.txt", "FAQ Content"} -> "low"
    [] OTHER -> "medium"

createMockAuditItem(name, score, status) ==
  AuditItem(name, mockCategory(name), score, status,
            Text("Test details"), Text("Test recommendation"))

MockItems ==
  {createMockAuditItem(n, s, st) : n \in MockNames, s \in MockScores, st \in Statuses}

MockItemLists ==
  UNION {[1..n -> MockItems] : n \in 0..MaxItems}

(***************************************************************************)
(* createMockAuditResult({ items })  (fixtures.ts 17-57): the result a     *)
(* test builds around its own items, with the fixture's overallScore,      *)
(* grade and summary.  Items of a tier the auditor does not know:          *)
(* createMockAuditItem({ category: 'info' as any }).                       *)
(***************************************************************************)
createMockAuditResult(items) ==
  [overallScore |-> 0,
   maxPossibleScore |-> 100,
   grade |-> "F",
   items |-> items,
   summary |-> [critical |-> [passed |-> 0, total |-> 6],
                high |-> [passed |-> 0, total |-> 6],
                medium |-> [passed |-> 0, total |-> 5],
                low |-> [passed |-> 0, total |-> 2]]]

UnknownTierItems ==
  {AuditItem("Test Item", "info", s, st, Text("Test details"), Text("Test recommendation")) :
     s \in MockScores, st \in {"pass", "fail"}}

UnknownTierLists ==
  {<<u>> : u \in UnknownTierItems}
    \cup {<<m, u>> : m \in MockItems \cup UnknownTierItems, u \in UnknownTierItems}
    \cup {<<u, m>> : u \in UnknownTierItems, m \in MockItems}

(***************************************************************************)
(* Long lists: a robots.txt item scoring 0, at most one more item, and     *)
(* pad copies of one critical item the table does not name.                *)
(***************************************************************************)
MaxPad == 120

PadScores == {0, 29}

PadCores ==
  {<<>>} \cup {<<createMockAuditItem(n, s, "pass")>> : n \in MockNames, s \in MockScores}

PaddedItemList(core, f, pad) ==
  [i \in 1..(1 + Len(core) + pad) |->
     IF i = 1 THEN createMockAuditItem("robots.txt", 0, "fail")
     ELSE IF i <= 1 + Len(core) THEN core[i - 1]
     ELSE createMockAuditItem("Server-side Rendering", f, "fail")]

(***************************************************************************)
(* Crawl results fed to the pipeline.                                      *)
(***************************************************************************)
MaxPages == 3

RobotsSamples ==
  { NullFile,
    File(<<>>),
    File(<<Line("agent", "*"), Line("allow", "/")>>),
    File(<<Line("agent", "GPTBot"), Line("disallow", "/")>>),
    File(<<Line("agent", "*"), Line("disallow", "/"), Line("blank", ""),
           Line("agent", "ClaudeBot"), Line("allow", "/"),
           Line("sitemap", "https://example.com/sitemap.xml")>>),
    File(<<Line("comment", "GPTBot"), Line("comment", "ClaudeBot"),
           Line("comment", "PerplexityBot"), Line("agent", "Googlebot"),
           Line("other", "Crawl-delay: 10"),
           Line("sitemap", "https://example.com/sitemap.xml")>>),
    File(<<Line("agent", "GPTBot"), Line("agent", "ClaudeBot"),
           Line("agent", "Google-Extended"), Line("agent", "PerplexityBot"),
           Line("agent", "Applebot-Extended"), Line("allow", "/")>>),
    File(<<Line("agent", "CLAUDEBOT"), Line("comment", "archive"),
           Line("agent", "Bytespider"), Line("disallow", "/"),
           Line("agent", "CLAUDEBOT"), Line("disallow", "/")>>),
    File(<<Line("agent", ""), Line("disallow", "/")>>),
    File(<<Line("agent", "*"), Line("disallow", "/")>>),
    File(<<Line("agent", "*"), Line("disallow", "/private"), Line("disallow", "/")>>),
    File(<<Line("agent", "GPTBot"), Line("other", "Crawl-delay: 10"),
           Line("disallow", "/"), Line("agent", "CCBot"), Line("disallow", "/private")>>),
    File(<<Line("agent", "GPTBot"), Line("comment", "archive"), Line("agent", "CCBot"),
           Line("blank", ""), Line("disallow", "/"), Line("disallow", "/"),
           Line("agent", "Amazonbot"), Line("disallow", ""), Line("disallow", "/"),
           Line("agent", "Googlebot"), Line("disallow", "/")>>),
    File(<<Line("agent", "GPTBot"), Line("agent", "CCBot"), Line("allow", "/"),
           Line("blank", ""), Line("agent", "*"), Line("disallow", "/")>>) }

(* the policy files other than robots.txt: none, all, some empty, some,    *)
(* most, and the text files fetched with an empty body                     *)
FileProfiles ==
  { [sitemapXml |-> NullFile, llmsTxt |-> NullFile, llmsFullTxt |-> NullFile,
     aiTxt |-> NullFile, aiJson |-> NullFile, securityTxt |-> NullFile,
     tdmrepJson |-> NullFile, humansTxt |-> NullFile, manifestJson |-> NullFile,
     bingSiteAuth |-> NullFile],
    [sitemapXml |-> File(<<"<urlset>", "<url>", "<loc>", "<lastmod>", "<url>", "<loc>">>),
     llmsTxt |-> File(<<MdLine("# ", "Example"), MdLine("> ", "A site"),
                        MdLine("## ", "Docs"), MdLine("", "[Page](url)")>>),
     llmsFullTxt |-> File(<<MdLine("# ", "Example"), MdLine("", "All the text")>>),
     aiTxt |-> File(<<"User-Agent: *">>), aiJson |-> File(<<"{}">>),
     securityTxt |-> File(<<"Contact: mailto:a@example.com">>),
     tdmrepJson |-> File(<<"[]">>), humansTxt |-> File(<<"/* TEAM */">>),
     manifestJson |-> File(<<"{}">>), bingSiteAuth |-> File(<<"<users>">>)],
    [sitemapXml |-> File(<<"<urlset>">>),
     llmsTxt |-> File(<<MdLine("# ", ""), MdLine("", "plain text")>>),
     llmsFullTxt |-> File(<<>>),
     aiTxt |-> File(<<>>), aiJson |-> File(<<"{}">>),
     securityTxt |-> File(<<>>),
     tdmrepJson |-> NullFile, humansTxt |-> File(<<"/* TEAM */">>),
     manifestJson |-> NullFile, bingSiteAuth |-> NullFile],
    [sitemapXml |-> File(<<"<urlset>", "<url>", "<loc>">>),
     llmsTxt |-> File(<<MdLine("## ", "Docs"), MdLine("", "[Page](url)")>>),
     llmsFullTxt |-> NullFile,
     aiTxt |-> File(<<"User-Agent: *">>), aiJson |-> NullFile,
     securityTxt |-> File(<<"Contact: mailto:a@example.com">>),
     tdmrepJson |-> File(<<"[]">>), humansTxt |-> NullFile,
     manifestJson |-> NullFile, bingSiteAuth |-> NullFile],
    [sitemapXml |-> File(<<"<urlset>">>),
     llmsTxt |-> File(<<MdLine("# ", "Example")>>),
     llmsFullTxt |-> File(<<MdLine("# ", "Example"), MdLine("", "All the text")>>),
     aiTxt |-> NullFile, aiJson |-> File(<<"{}">>),
     securityTxt |-> File(<<"Contact: mailto:a@example.com">>),
     tdmrepJson |-> File(<<"[]">>), humansTxt |-> File(<<"/* TEAM */">>),
     manifestJson |-> File(<<"{}">>), bingSiteAuth |-> NullFile],
    [sitemapXml |-> NullFile, llmsTxt |-> File(<<>>), llmsFullTxt |-> File(<<>>),
     aiTxt |-> File(<<>>), aiJson |-> NullFile, securityTxt |-> File(<<>>),
     tdmrepJson |-> NullFile, humansTxt |-> File(<<>>), manifestJson |-> NullFile,
     bingSiteAuth |-> NullFile] }

ExistingGeoFiles(robotsTxt, rest) ==
  [robotsTxt |-> robotsTxt, sitemapXml |-> rest.sitemapXml, llmsTxt |-> rest.llmsTxt,
   llmsFullTxt |-> rest.llmsFullTxt, aiTxt |-> rest.aiTxt, aiJson |-> rest.aiJson,
   securityTxt |-> rest.securityTxt, tdmrepJson |-> rest.tdmrepJson,
   humansTxt |-> rest.humansTxt, manifestJson |-> rest.manifestJson,
   bingSiteAuth |-> rest.bingSiteAuth]

PageSamples ==
  { [meta |-> [description |-> Description(120), canonical |-> "https://example.com/",
               ogTitle |-> "Example", ogDescription |-> "A site",
               publishedDate |-> NoDate, modifiedDate |-> DateString("date", 300),
               robots |-> "max-snippet:-1, max-image-preview:large",
               googleVerification |-> "token", bingVerification |-> NULL],
     content |-> [headings |-> <<1, 2, 3>>, wordCount |-> 800, faqItems |-> 2],
     existingStructuredData |->
       [jsonLd |-> <<JsonLd("Organization", TRUE), JsonLd("WebSite", FALSE),
                     JsonLd("FAQPage", FALSE)>>],
     lastModified |-> NoDate,
     responseHeaders |-> [xRobotsTag |-> NULL]],
    [meta |-> [description |-> NullDescription, canonical |-> NULL,
               ogTitle |-> NULL, ogDescription |-> NULL,
               publishedDate |-> DateString("invalid", 0),
               modifiedDate |-> DateString("empty", 0),
               robots |-> "NOINDEX, nofollow",
               googleVerification |-> NULL, bingVerification |-> NULL],
     content |-> [headings |-> <<>>, wordCount |-> 40, faqItems |-> 0],
     existingStructuredData |-> [jsonLd |-> <<>>],
     lastModified |-> NoDate,
     responseHeaders |-> [xRobotsTag |-> NULL]],
    [meta |-> [description |-> Description(29), canonical |-> "https://example.com/a",
               ogTitle |-> "Example", ogDescription |-> "",
               publishedDate |-> NoDate, modifiedDate |-> NoDate,
               robots |-> NULL,
               googleVerification |-> "", bingVerification |-> "token"],
     content |-> [headings |-> <<1, 3>>, wordCount |-> 400, faqItems |-> 0],
     existingStructuredData |-> [jsonLd |-> <<JsonLd("", FALSE)>>],
     lastModified |-> DateString("date", 700),
     responseHeaders |-> [xRobotsTag |-> "max-snippet:-1"]],
    [meta |-> [description |-> Description(30), canonical |-> "",
               ogTitle |-> "Post", ogDescription |-> "A post",
               publishedDate |-> DateString("date", 1000), modifiedDate |-> NoDate,
               robots |-> "index, follow",
               googleVerification |-> NULL, bingVerification |-> NULL],
     content |-> [headings |-> <<2, 1, 1>>, wordCount |-> 600, faqItems |-> 1],
     existingStructuredData |-> [jsonLd |-> <<JsonLd("Article", TRUE)>>],
     lastModified |-> NoDate,
     responseHeaders |-> [xRobotsTag |-> "noindex"]] }

PageLists == UNION {[1..n -> PageSamples] : n \in 0..MaxPages}

CrawlInputs ==
  { [existingGeoFiles |-> ExistingGeoFiles(robotsTxt, rest), pages |-> pages] :
      robotsTxt \in RobotsSamples, rest \in FileProfiles, pages \in PageLists }

(* Date.now() at the audit, in days *)
NowSamples == {400, 800}

(***************************************************************************)
(* Operations                                                              *)
(***************************************************************************)
(* Object identities.  A Finding is a JavaScript object; two results can   *)
(* share one.  objects.before[i] and objects.after[i] are the identities   *)
(* of audit.items[i] and projected.items[i], numbered in allocation order. *)
(* the n objects of a list built from object literals *)
allocated(n) == [i \in 1..n |-> i]

NoObjects == <<>>

(* generateProjectedAudit's map callback returns item itself *)
returnsItemItself(item, fresh) == item

(* both returns of the map callback are object literals, { ...item, ... }  *)
(* and { ...item }: the object returned is a new one                       *)
spreadCopy(item, fresh) == fresh

(* before.items.map(callback), on the identities *)
mapObjects(before) ==
  [i \in DOMAIN before |-> spreadCopy(before[i], Len(before) + i)]

(* no web server: the command line and the unit tests *)
NoWeb == [none |-> "web"]

(* the job runner and cli.ts: auditSite(crawlResult) *)
Audit ==
  /\ pc = "crawled"
  /\ audit' = auditSite(crawl, now)
  /\ objects' = [before |-> allocated(Len(audit'.items)), after |-> NoObjects]
  /\ pc' = "audited"
  /\ UNCHANGED <<crawl, now, projected, web>>

(* the job runner, cli.ts and the unit tests: generateProjectedAudit(audit) *)
Project ==
  /\ pc = "audited"
  /\ projected' = generateProjectedAudit(audit)
  /\ objects' = [objects EXCEPT
                   !.after = IF projected' = TypeErrorRaised
                               THEN NoObjects
                               ELSE mapObjects(objects.before)]
  /\ pc' = "projected"
  /\ UNCHANGED <<crawl, now, audit, web>>

Init ==
  /\ crawl \in CrawlInputs
  /\ now \in NowSamples
  /\ audit = NoAudit
  /\ projected = NoAudit
  /\ objects = [before |-> NoObjects, after |-> NoObjects]
  /\ web = NoWeb
  /\ pc = "crawled"

Next == Audit \/ Project

Spec == Init /\ [][Next]_vars

(* a baseline that is the aggregate of its own items, then its projection *)
InitProj ==
  /\ crawl = NoCrawl
  /\ now = 0
  /\ audit \in {auditSiteResult(items) : items \in MockItemLists}
  /\ projected = NoAudit
  /\ objects = [before |-> allocated(Len(audit.items)), after |-> NoObjects]
  /\ web = NoWeb
  /\ pc = "audited"

NextProj == Project

SpecProj == InitProj /\ [][NextProj]_vars

InitPad ==
  /\ crawl = NoCrawl
  /\ now = 0
  /\ \E core \in PadCores, f \in PadScores, pad \in 0..MaxPad :
       audit = auditSiteResult(PaddedItemList(core, f, pad))
  /\ projected = NoAudit
  /\ objects = [before |-> allocated(Len(audit.items)), after |-> NoObjects]
  /\ web = NoWeb
  /\ pc = "audited"

NextPad == Project

SpecPad == InitPad /\ [][NextPad]_vars

(* a hand-built baseline holding an item of an unknown tier, then its projection *)
InitTier ==
  /\ crawl = NoCrawl
  /\ now = 0
  /\ audit \in {createMockAuditResult(items) : items \in UnknownTierLists}
  /\ projected = NoAudit
  /\ objects = [before |-> allocated(Len(audit.items)), after |-> NoObjects]
  /\ web = NoWeb
  /\ pc = "audited"

NextTier == Project

SpecTier == InitTier /\ [][NextTier]_vars

(***************************************************************************)
(* The web server: one job and the clients of its progress stream.         *)
(*                                                                         *)
(* Node runs a handler or a continuation to its next await without         *)
(* interruption, so an action is one such stretch of code.  web holds      *)
(*   type       'scan' or 'check'                                          *)
(*   row        whether the jobs table has the job's row                   *)
(*   statusLog  the values the row's status column has held, in order      *)
(*   emitted    the stages of the events emitted for the job, in order     *)
(*   at         the await the job function is suspended at                 *)
(*   crawlMsgs  progress messages of the crawl so far                      *)
(*   clients    the available LLM clients (check job)                      *)
(*   queries    the generated queries (check job)                          *)
(*   answered   per LLM client, the queries answered so far                *)
(*   sse        per stream client: the state of its response, the stages   *)
(*              written to it, and whether its listener is registered      *)
(***************************************************************************)
MaxSseClients == 2

MaxCrawlMsgs == 1

MaxEngines == 2

MaxQueries == 2

SseClients == 1..MaxSseClients

Engines == 1..MaxEngines

TerminalStages == {"done", "error"}

TerminalStatuses == {"completed", "failed"}

(* database.ts 53-60: createJob inserts the row with status 'pending' *)
createJob(w, type) == [w EXCEPT !.type = type, !.row = TRUE, !.statusLog = <<"pending">>]

(* database.ts 72-86: UPDATE jobs SET status = ... WHERE id = ?, which     *)
(* changes nothing when the row is gone                                    *)
updateJob(w, status) ==
  IF w.row THEN [w EXCEPT !.statusLog = Append(@, status)] ELSE w

updateJobRunning(w) == updateJob(w, "running")

updateJobCompleted(w) == updateJob(w, "completed")

updateJobFailed(w) == updateJob(w, "failed")

(* database.ts 62-64: the stored status, getJob(id).status *)
status(w) == w.statusLog[Len(w.statusLog)]

onProgressEndingOnDone(client, stage) ==
  [stream |-> IF stage = "done" THEN "ended" ELSE client.stream,
   received |-> Append(client.received, stage),
   listening |-> IF stage = "done" THEN FALSE ELSE client.listening]

(* server.ts 141-147: the listener writes the event and, on a terminal     *)
(* stage, removes itself and ends the response                             *)
onProgress(client, stage) ==
  [stream |-> IF stage \in TerminalStages THEN "ended" ELSE client.stream,
   received |-> Append(client.received, stage),
   listening |-> IF stage \in TerminalStages THEN FALSE ELSE client.listening]

(* job runner 43-45: jobEvents.emit(jobId, event) calls every listener     *)
(* registered for the job                                                  *)
emit(w, stage) ==
  [w EXCEPT
     !.emitted = Append(@, stage),
     !.sse = [k \in SseClients |->
                IF w.sse[k].listening THEN onProgress(w.sse[k], stage) ELSE w.sse[k]]]

(* consecutive emit calls *)
RECURSIVE emitAll(_, _)
emitAll(w, stages) ==
  IF stages = <<>> THEN w
  ELSE emitAll(emit(w, stages[1]), SubSeq(stages, 2, Len(stages)))

completedThenReports(w) == emit(emit(updateJobCompleted(w), "done"), "generate")

(* job runner 140-141, 289-290: the end of the try block *)
completed(w) == emit(updateJobCompleted(w), "done")

(* job runner 143-147, 292-296: the catch block *)
failed(w) == emit(updateJobFailed(w), "error")

NoJob ==
  [type |-> "none", row |-> FALSE, statusLog |-> <<>>, emitted |-> <<>>, at |-> "new",
   crawlMsgs |-> 0, clients |-> 0, queries |-> 0,
   answered |-> [c \in Engines |-> 0],
   sse |-> [k \in SseClients |->
              [stream |-> "none", received |-> <<>>, listening |-> FALSE]]]

(* what the job and the stream handlers leave alone *)
pipeline == <<crawl, now, audit, projected, pc, objects>>

(* POST /api/scan (server.ts 31-63): createJob, then runScanJob up to its   *)
(* first await, crawlSite (job runner 58-62)                               *)
PostScan ==
  /\ web.at = "new"
  /\ web' = [emit(updateJobRunning(createJob(web, "scan")), "crawl") EXCEPT !.at = "crawl"]
  /\ UNCHANGED pipeline

(* POST /api/check (server.ts 66-97): createJob, then runCheckJob up to its *)
(* first await, the import of dotenv (job runner 160-166)                  *)
PostCheck ==
  /\ web.at = "new"
  /\ web' = [updateJobRunning(createJob(web, "check")) EXCEPT !.at = "imports"]
  /\ UNCHANGED pipeline

(* job runner 166-203: the modules are loaded; without an API key the job  *)
(* throws, otherwise it announces the crawl and awaits it                  *)
ImportsDone ==
  /\ web.at = "imports"
  /\ \E n \in 0..MaxEngines :
       web' = IF n = 0
                THEN [failed(web) EXCEPT !.at = "end"]
                ELSE [emit(web, "crawl") EXCEPT !.at = "crawl", !.clients = n]
  /\ UNCHANGED pipeline

(* job runner 67-69, 209-211: the crawler's progress callback *)
CrawlProgress ==
  /\ web.at = "crawl"
  /\ web.crawlMsgs < MaxCrawlMsgs
  /\ web' = [emit(web, "crawl") EXCEPT !.crawlMsgs = @ + 1]
  /\ UNCHANGED pipeline

(* crawlSite resolved.  Scan (job runner 70-88): the audit, up to the      *)
(* first mkdir.  Check (job runner 212-228): up to generateQueries.        *)
CrawlDone ==
  /\ web.at = "crawl"
  /\ web' = IF web.type = "scan"
              THEN [emitAll(web, <<"crawl", "audit", "audit", "generate">>)
                      EXCEPT !.at = "mkdir"]
              ELSE [emitAll(web, <<"crawl", "context", "context", "queries">>)
                      EXCEPT !.at = "queries"]
  /\ UNCHANGED pipeline

(* job runner 86-123: the directories exist, the files are generated and   *)
(* the first writeFile is awaited                                          *)
MkdirDone ==
  /\ web.at = "mkdir"
  /\ web' = [emit(web, "generate") EXCEPT !.at = "write"]
  /\ UNCHANGED pipeline

(* job runner 124-141: the files are written *)
WriteDone ==
  /\ web.at = "write"
  /\ web' = [completed(emit(web, "generate")) EXCEPT !.at = "end"]
  /\ UNCHANGED pipeline

(* the first query of every LLM client: the async callbacks of clients.map *)
(* run to their first await one after the other (job runner 237-244)       *)
RECURSIVE startEngines(_, _)
startEngines(w, n) ==
  IF n = 0 \/ w.queries = 0 THEN w ELSE emit(startEngines(w, n - 1), "search")

(* job runner 229-252: generateQueries resolved with q queries *)
QueriesDone ==
  /\ web.at = "queries"
  /\ \E q \in 0..MaxQueries :
       web' = [startEngines([emitAll(web, <<"queries", "search">>) EXCEPT !.queries = q],
                            web.clients)
                 EXCEPT !.at = "search"]
  /\ UNCHANGED pipeline

(* job runner 244-251: a client's query resolved (the clients turn every   *)
(* failure into an error response); the loop goes on to the next query     *)
EngineResponse ==
  /\ web.at = "search"
  /\ \E c \in 1..web.clients :
       /\ web.answered[c] < web.queries
       /\ web' = IF web.answered[c] + 1 < web.queries
                   THEN [emit(web, "search") EXCEPT !.answered[c] = @ + 1]
                   ELSE [web EXCEPT !.answered[c] = @ + 1]
  /\ UNCHANGED pipeline

(* job runner 253-276: Promise.all resolved; scores, then the report files *)
SearchDone ==
  /\ web.at = "search"
  /\ \A c \in 1..web.clients : web.answered[c] = web.queries
  /\ web' = [emitAll(web, <<"scoring", "report">>) EXCEPT !.at = "report"]
  /\ UNCHANGED pipeline

(* job runner 277-290: the reports are written *)
ReportDone ==
  /\ web.at = "report"
  /\ web' = [completed(web) EXCEPT !.at = "end"]
  /\ UNCHANGED pipeline

(* an awaited operation rejected, or the code after it threw: crawlSite,   *)
(* mkdir, writeFile, the dynamic imports, generateQueries                  *)
Rejected ==
  /\ web.at \in {"imports", "crawl", "mkdir", "write", "queries", "report"}
  /\ web' = [failed(web) EXCEPT !.at = "end"]
  /\ UNCHANGED pipeline

(* GET /api/jobs/:id/progress (server.ts 116-156) *)
Subscribe ==
  /\ UNCHANGED pipeline
  /\ \E k \in SseClients :
      /\ web.sse[k].stream = "none"
      /\ web.at # "new"
      /\ web' = [web EXCEPT !.sse[k] =
           IF ~web.row
             THEN [@ EXCEPT !.stream = "404"]
           ELSE IF status(web) \in TerminalStatuses
             THEN [stream |-> "ended",
                   received |-> <<IF status(web) = "completed" THEN "done" ELSE "error">>,
                   listening |-> FALSE]
           ELSE [@ EXCEPT !.stream = "open", !.listening = TRUE]]

(* server.ts 149-155: the client went away; req 'close' runs cleanup *)
Disconnect ==
  /\ UNCHANGED pipeline
  /\ \E k \in SseClients :
      /\ web.sse[k].stream = "open"
      /\ web' = [web EXCEPT !.sse[k].stream = "closed by client",
                            !.sse[k].listening = FALSE]

(* DELETE /api/jobs/:id (server.ts 246-268) *)
DeleteJob ==
  /\ web.row
  /\ web' = [web EXCEPT !.row = FALSE]
  /\ UNCHANGED pipeline

JobStep ==
  \/ PostScan \/ PostCheck \/ ImportsDone \/ CrawlProgress \/ CrawlDone
  \/ MkdirDone \/ WriteDone \/ QueriesDone \/ EngineResponse \/ SearchDone
  \/ ReportDone \/ Rejected

InitJob ==
  /\ crawl = NoCrawl
  /\ now = 0
  /\ audit = NoAudit
  /\ projected = NoAudit
  /\ objects = [before |-> NoObjects, after |-> NoObjects]
  /\ pc = "serving"
  /\ web = NoJob

NextJob == JobStep \/ Subscribe \/ Disconnect \/ DeleteJob

(* the event loop runs every continuation that is ready, and every awaited *)
(* operation settles: the job function is never suspended forever          *)
SpecJob == InitJob /\ [][NextJob]_vars /\ WF_vars(JobStep)

(***************************************************************************)
(* Vocabulary of the properties                                            *)
(***************************************************************************)
Projected == pc = "projected" /\ projected # TypeErrorRaised

(* the results that exist in the current state *)
Results ==
  (IF pc \in {"audited", "projected"} THEN {audit} ELSE {}) \cup
  (IF Projected THEN {projected} ELSE {})

(* tier weights 3, 2, 1, 0.5, doubled *)
TierWeight2(t) ==
  CASE t = "critical" -> 6 [] t = "high" -> 4 [] t = "medium" -> 2 [] t = "low" -> 1

(* f[lo] + ... + f[hi] *)
RECURSIVE SumOver(_, _, _)
SumOver(f, lo, hi) ==
  IF lo > hi THEN 0
  ELSE IF lo = hi THEN f[lo]
  ELSE SumOver(f, lo, (lo + hi) \div 2) + SumOver(f, (lo + hi) \div 2 + 1, hi)

WeightedScore2(items) ==
  SumOver([i \in DOMAIN items |-> items[i].score * TierWeight2(items[i].category)],
          1, Len(items))

WeightedMax2(items) ==
  SumOver([i \in DOMAIN items |-> items[i].maxScore * TierWeight2(items[i].category)],
          1, Len(items))

(* round(100 * a / b), halves up, on the exact quotient *)
RoundedPercent(a, b) == (200 * a + b) \div (2 * b)

GradeRank(g) ==
  CASE g = "F" -> 0 [] g = "D" -> 1 [] g = "C" -> 2 [] g = "B" -> 3
    [] g = "A" -> 4 [] g = "A+" -> 5

GradeOfScore(s) ==
  CASE s >= 90 -> "A+"
    [] s >= 80 /\ s < 90 -> "A"
    [] s >= 70 /\ s < 80 -> "B"
    [] s >= 60 /\ s < 70 -> "C"
    [] s >= 50 /\ s < 60 -> "D"
    [] s < 50 -> "F"



(***************************************************************************)
(* C1.  Every Finding of every AuditResult returned by auditSite, for any  *)
(* crawl result (no pages, any policy-file text), has maxScore = 100, a    *)
(* score that is a number in 0..maxScore (never NaN) and a status among    *)
(* pass, partial, fail, not_applicable.                                    *)
(***************************************************************************)
C1_FindingsAreWellFormed ==
  (crawl # NoCrawl /\ pc \in {"audited", "projected"}) =>
    \A i \in DOMAIN audit.items :
      /\ audit.items[i].maxScore = 100
      /\ audit.items[i].score # NaN
      /\ audit.items[i].score >= 0
      /\ audit.items[i].score <= audit.items[i].maxScore
      /\ audit.items[i].status \in Statuses

(* the audit of a crawl without pages whose robots.txt has text: all 20    *)
(* Findings, the page-based ones at 0, two of them not applicable          *)
C1_Witness ==
  /\ pc = "audited"
  /\ crawl.pages = <<>>
  /\ Truthy(crawl.existingGeoFiles.robotsTxt)
  /\ Len(audit.items) = 20
  /\ audit.items[5].name = "Server-side Rendering"
  /\ audit.items[5].score = 0
  /\ audit.items[5].status = "fail"
  /\ Cardinality({i \in DOMAIN audit.items :
                    audit.items[i].status = "not_applicable"}) = 2

(***************************************************************************)
(* C2.  In every AuditResult returned by auditSite or generateProjected-   *)
(* Audit, overallScore is round(100 * sum(score * w) / sum(maxScore * w))  *)
(* with w = 3, 2, 1, 0.5 by tier, is 0 when that denominator is 0, and     *)
(* lies in 0..100.                                                         *)
(***************************************************************************)
C2_OverallScoreIsRoundedWeightedRatio ==
  \A r \in Results :
    /\ r.overallScore \in 0..100
    /\ r.overallScore =
         IF WeightedMax2(r.items) = 0 THEN 0
         ELSE RoundedPercent(WeightedScore2(r.items), WeightedMax2(r.items))

(***************************************************************************)
(* C3.  In every AuditResult, summary[tier].total is the number of         *)
(* Findings of the tier and summary[tier].passed the number of those with  *)
(* status pass or partial; so passed <= total, and the four totals add up  *)
(* to the number of Findings.                                              *)
(***************************************************************************)
C3_SummaryCountsFindings ==
  \A r \in Results :
    /\ \A t \in Tiers :
         /\ r.summary[t].total =
              Cardinality({i \in DOMAIN r.items : r.items[i].category = t})
         /\ r.summary[t].passed =
              Cardinality({i \in DOMAIN r.items :
                             /\ r.items[i].category = t
                             /\ r.items[i].status \in {"pass", "partial"}})
         /\ r.summary[t].passed <= r.summary[t].total
    /\ r.summary["critical"].total + r.summary["high"].total
         + r.summary["medium"].total + r.summary["low"].total = Len(r.items)

(* the audit of a crawl without pages and its projection: the two Findings *)
(* that are not applicable are not counted as passed, and the projection   *)
(* passes more of the critical tier                                        *)
C3_Witness ==
  /\ Projected
  /\ crawl # NoCrawl
  /\ \E i \in DOMAIN audit.items :
       audit.items[i].category = "high" /\ audit.items[i].status = "not_applicable"
  /\ audit.summary["high"].total = 6
  /\ audit.summary["high"].passed = 0
  /\ projected.summary["high"].passed = 2
  /\ projected.summary["critical"].passed > audit.summary["critical"].passed

(***************************************************************************)
(* C4.  The grade of an AuditResult is A+ from 90, A from 80, B from 70,   *)
(* C from 60, D from 50 and F below, in the audit and in the projection,   *)
(* and the auditor's and the projection's grade functions agree on every   *)
(* score in 0..100.                                                        *)
(***************************************************************************)
C4_GradeIsStepFunctionOfScore ==
  /\ pc \in {"audited", "projected"} => audit.grade = GradeOfScore(audit.overallScore)
  /\ Projected =>
       /\ projected.grade = GradeOfScore(projected.overallScore)
       /\ \A s \in 0..100 : scoreToGrade(s) = scoreToGradeComparison(s)
       /\ audit.overallScore = projected.overallScore => audit.grade = projected.grade

(* an audit graded B whose projection is graded A, and one that the        *)
(* projection leaves at its score and grade                                *)
C4_Witness ==
  /\ Projected
  /\ crawl # NoCrawl
  /\ \/ audit.overallScore \in 70..79 /\ audit.grade = "B"
        /\ projected.overallScore \in 80..89 /\ projected.grade = "A"
     \/ audit.overallScore = projected.overallScore /\ audit.overallScore >= 90
        /\ audit.grade = "A+" /\ projected.grade = "A+"

(***************************************************************************)
(* C5.  Projection never lowers the score of the Finding at any index.     *)
(***************************************************************************)
C5_ProjectionNeverLowersAScore ==
  Projected =>
    /\ Len(projected.items) = Len(audit.items)
    /\ \A i \in DOMAIN audit.items : projected.items[i].score >= audit.items[i].score

(* one Finding raised, and one above its target (85) kept where it was *)
C5_Witness ==
  /\ Projected
  /\ \E i, j \in DOMAIN audit.items :
       /\ projected.items[i].score > audit.items[i].score
       /\ audit.items[j].name = "Structured Data (JSON-LD)"
       /\ audit.items[j].score = 100
       /\ projected.items[j].score = 100

(***************************************************************************)
(* C6.  A Finding named in the improvement table whose score is strictly   *)
(* below the target is replaced by one with score = target, status pass    *)
(* if the target is >= 70 and partial otherwise, details = the table note  *)
(* and recommendation = 'Included in generated package'.                   *)
(***************************************************************************)
C6_EligibleFindingIsReplaced ==
  Projected =>
    \A i \in DOMAIN audit.items :
      LET b == audit.items[i]
          a == projected.items[i]
      IN (b.name \in DOMAIN PROJECTED_IMPROVEMENTS
            /\ b.score < PROJECTED_IMPROVEMENTS[b.name].score) =>
           /\ a.score = PROJECTED_IMPROVEMENTS[b.name].score
           /\ a.status = IF PROJECTED_IMPROVEMENTS[b.name].score >= 70
                           THEN "pass" ELSE "partial"
           /\ a.details = Text(PROJECTED_IMPROVEMENTS[b.name].note)
           /\ a.recommendation = Text("Included in generated package")

(* Structured Data below 85 comes out at 85 / pass with the table's note *)
C6_Witness ==
  /\ Projected
  /\ \E i \in DOMAIN audit.items :
       /\ audit.items[i].name = "Structured Data (JSON-LD)"
       /\ audit.items[i].score = 29
       /\ audit.items[i].status = "not_applicable"
       /\ projected.items[i].score = 85
       /\ projected.items[i].status = "pass"
       /\ projected.items[i].details = Text("Organization + WebSite schemas")

(***************************************************************************)
(* C7.  A Finding not named in the table, or already at or above the       *)
(* target, comes out with every field equal to the input's.                *)
(***************************************************************************)
C7_OtherFindingsPassThrough ==
  Projected =>
    \A i \in DOMAIN audit.items :
      LET b == audit.items[i]
          a == projected.items[i]
      IN (b.name \notin DOMAIN PROJECTED_IMPROVEMENTS
            \/ b.score >= PROJECTED_IMPROVEMENTS[b.name].score) =>
           /\ a.name = b.name
           /\ a.category = b.category
           /\ a.score = b.score
           /\ a.maxScore = b.maxScore
           /\ a.status = b.status
           /\ a.details = b.details
           /\ a.recommendation = b.recommendation

(* an unnamed Finding and one exactly at its target, both failing, next to *)
(* each other and both untouched                                           *)
C7_Witness ==
  /\ Projected
  /\ \E i, j \in DOMAIN audit.items :
       /\ audit.items[i].name = "Meta Descriptions"
       /\ audit.items[i].score = 29
       /\ audit.items[j].name = "robots.txt"
       /\ audit.items[j].score = 100
       /\ audit.items[j].status = "fail"
       /\ projected.items[i] = audit.items[i]
       /\ projected.items[j] = audit.items[j]

(***************************************************************************)
(* C9.  The projection of an AuditResult that is the aggregate of its own  *)
(* Findings never worsens the aggregate: overallScore does not drop, the   *)
(* grade does not drop in F < D < C < B < A < A+, every tier's total is    *)
(* unchanged and every tier's passed does not drop.                        *)
(***************************************************************************)
C9_ProjectionNeverWorsensTheAggregate ==
  Projected =>
    /\ projected.overallScore >= audit.overallScore
    /\ GradeRank(projected.grade) >= GradeRank(audit.grade)
    /\ \A t \in Tiers :
         /\ projected.summary[t].total = audit.summary[t].total
         /\ projected.summary[t].passed >= audit.summary[t].passed

(* a baseline graded F whose projection is graded higher, with more passed *)
C9_Witness ==
  /\ Projected
  /\ audit.grade = "F"
  /\ GradeRank(projected.grade) > 0
  /\ projected.overallScore > audit.overallScore
  /\ projected.overallScore < 100
  /\ \E t \in Tiers : projected.summary[t].passed > audit.summary[t].passed


(***************************************************************************)
(* C8.  As claimed: for every baseline that is the aggregate of its own    *)
(* Findings and whose robots.txt Finding scores 0, the projection scores   *)
(* that Finding 100 and has a strictly greater overallScore.               *)
(***************************************************************************)
C8_RobotsFixStrictlyRaisesOverallScore ==
  Projected =>
    \A i \in DOMAIN audit.items :
      (audit.items[i].name = "robots.txt" /\ audit.items[i].score = 0) =>
        /\ projected.items[i].score = 100
        /\ projected.overallScore > audit.overallScore

(***************************************************************************)
(* C8, amended.  The projection scores the robots.txt Finding 100 and its  *)
(* overallScore is not below the baseline's; it is strictly greater when   *)
(* the robots.txt Finding is critical and the baseline has fewer than 100  *)
(* Findings (auditSite returns 20).  In a longer list the Finding's share  *)
(* of the weighted total is below one point and the rounded score can stay *)
(* where it was.                                                           *)
(***************************************************************************)
C8_RobotsFixRaisesOverallScoreOfShortLists ==
  Projected =>
    \A i \in DOMAIN audit.items :
      (audit.items[i].name = "robots.txt" /\ audit.items[i].score = 0) =>
        /\ projected.items[i].score = 100
        /\ projected.overallScore >= audit.overallScore
        /\ (audit.items[i].category = "critical" /\ Len(audit.items) < 100) =>
             projected.overallScore > audit.overallScore

(* 99 Findings: robots.txt at 0 is fixed and the score moves up by one point *)
C8_Witness ==
  /\ Projected
  /\ Len(audit.items) = 99
  /\ audit.items[1].name = "robots.txt"
  /\ audit.items[1].score = 0
  /\ projected.items[1].score = 100
  /\ projected.overallScore = audit.overallScore + 1

(***************************************************************************)
(* Vocabulary of the properties of auditSite's Findings                    *)
(***************************************************************************)
Audited == crawl # NoCrawl /\ pc \in {"audited", "projected"}

(* the Finding of the audit with the given name *)
Finding(name) ==
  audit.items[CHOOSE i \in DOMAIN audit.items : audit.items[i].name = name]

(* a policy file is present when the crawl holds a text for it *)
Present(file) == ~file.isNull

(* the identifier occurs in the text, spelled as given *)
Mentions(file, id) ==
  \E i \in DOMAIN file.lines :
    file.lines[i].kind \in {"agent", "comment"} /\ file.lines[i].arg = id

KeyIdentifiers ==
  {"GPTBot", "ClaudeBot", "Google-Extended", "PerplexityBot", "Applebot-Extended"}

(* round(x / y), halves up *)
Rounded(x, y) == (2 * x + y) \div (2 * y)

(***************************************************************************)
(* C11.  The robots.txt Finding is 0/fail when robots.txt is absent; when  *)
(* it is present, with m the number of the 5 key identifiers the text      *)
(* mentions, it is 30/partial if m = 0 and otherwise scores                *)
(* round(min(100, 30 + (m/5) * 70)), with status pass iff m >= 3 and       *)
(* partial otherwise.                                                      *)
(***************************************************************************)
C11_RobotsCoverageFinding ==
  Audited =>
    LET robotsTxt == crawl.existingGeoFiles.robotsTxt
        m == Cardinality({id \in KeyIdentifiers : Mentions(robotsTxt, id)})
        item == Finding("robots.txt")
    IN IF ~Present(robotsTxt) THEN item.score = 0 /\ item.status = "fail"
       ELSE IF m = 0 THEN item.score = 30 /\ item.status = "partial"
       ELSE /\ item.score = Rounded(IF 150 + 70 * m > 500 THEN 500 ELSE 150 + 70 * m, 5)
            /\ item.status = IF m >= 3 THEN "pass" ELSE "partial"

(***************************************************************************)
(* C12.  The AI Bot Blocking Finding is 100/pass when robots.txt is        *)
(* absent; otherwise, with B the number of distinct crawlers of the list   *)
(* of 13 that the scan marks blocked (0 <= B <= 13), it scores             *)
(* round(max(0, (1 - B/13) * 100)), and its status is pass iff B = 0, fail *)
(* iff B >= 7, and partial otherwise.                                      *)
(***************************************************************************)
BlockedSet(robotsTxt) ==
  LET blockedBots == blockingScan(robotsTxt, Len(robotsTxt.lines)).blockedBots
  IN {blockedBots[i] : i \in DOMAIN blockedBots}

C12_BotBlockingFinding ==
  Audited =>
    LET robotsTxt == crawl.existingGeoFiles.robotsTxt
        B == Cardinality(BlockedSet(robotsTxt))
        item == Finding("AI Bot Blocking")
    IN IF ~Present(robotsTxt) THEN item.score = 100 /\ item.status = "pass"
       ELSE /\ B \in 0..13
            /\ BlockedSet(robotsTxt) \subseteq {aiCrawlers[i] : i \in DOMAIN aiCrawlers}
            /\ item.score = Rounded(IF 13 - B > 0 THEN (13 - B) * 100 ELSE 0, 13)
            /\ item.status = IF B = 0 THEN "pass"
                             ELSE IF B >= 7 THEN "fail" ELSE "partial"

(* ClaudeBot is blocked twice and Bytespider once: two of 13, 85/partial;  *)
(* or a wildcard block leaves 12 blocked: 8/fail                           *)
C12_Witness ==
  /\ pc = "audited"
  /\ Present(crawl.existingGeoFiles.robotsTxt)
  /\ LET blockedBots == blockingScan(crawl.existingGeoFiles.robotsTxt,
                          Len(crawl.existingGeoFiles.robotsTxt.lines)).blockedBots
     IN /\ Len(blockedBots) = 3
        /\ Cardinality(BlockedSet(crawl.existingGeoFiles.robotsTxt)) = 2
  /\ Finding("AI Bot Blocking").score = 85
  /\ Finding("AI Bot Blocking").status = "partial"

(***************************************************************************)
(* Groups of a robots.txt text: a group is opened by one or more           *)
(* consecutive User-agent lines (comments and blank lines aside) and holds *)
(* every rule up to the next User-agent line that follows a rule.          *)
(***************************************************************************)
(* line j belongs to the group that the User-agent line i opens *)
InGroup(lines, i, j) ==
  /\ i < j
  /\ \A k \in (i + 1)..(j - 1) :
       lines[k].kind = "agent" =>
         \A l \in (i + 1)..(k - 1) : lines[l].kind \in {"agent", "comment", "blank"}

(* a User-agent: * group contains the rule Disallow: / *)
WildcardGroupDisallowsAll(file) ==
  \E i, j \in DOMAIN file.lines :
    /\ file.lines[i].kind = "agent" /\ file.lines[i].arg = "*"
    /\ file.lines[j].kind = "disallow" /\ file.lines[j].arg = "/"
    /\ InGroup(file.lines, i, j)

(* the crawler's own group contains the rule Allow: / *)
HasOwnAllow(file, bot) ==
  \E i, j \in DOMAIN file.lines :
    /\ file.lines[i].kind = "agent"
    /\ toLowerCase(file.lines[i].arg) = toLowerCase(bot)
    /\ file.lines[j].kind = "allow" /\ file.lines[j].arg = "/"
    /\ InGroup(file.lines, i, j)

ReferenceCrawlers == {aiCrawlers[i] : i \in DOMAIN aiCrawlers}

(***************************************************************************)
(* C13.  For every robots.txt text in which a User-agent: * group contains *)
(* Disallow: /, every one of the 13 reference crawlers without an explicit *)
(* Allow: / in its own group is in the blocked set of the AI Bot Blocking  *)
(* check; with no carve-outs all 13 are blocked and the Finding is 0/fail. *)
(***************************************************************************)
C13_WildcardDisallowBlocksAllNotCarvedOut ==
  Audited =>
    LET robotsTxt == crawl.existingGeoFiles.robotsTxt
    IN (Present(robotsTxt) /\ WildcardGroupDisallowsAll(robotsTxt)) =>
         /\ \A bot \in ReferenceCrawlers :
              ~HasOwnAllow(robotsTxt, bot) => bot \in BlockedSet(robotsTxt)
         /\ (\A bot \in ReferenceCrawlers : ~HasOwnAllow(robotsTxt, bot)) =>
              /\ BlockedSet(robotsTxt) = ReferenceCrawlers
              /\ Finding("AI Bot Blocking").score = 0
              /\ Finding("AI Bot Blocking").status = "fail"

(***************************************************************************)
(* Entries of a sitemap text: an entry runs from its <url> tag to the next *)
(* <url> tag, and carries a last-modified date when a <lastmod> tag lies   *)
(* in it.                                                                  *)
(***************************************************************************)
EntryIsDated(tags, i) ==
  \E j \in DOMAIN tags :
    /\ j > i
    /\ tags[j] = "<lastmod>"
    /\ \A k \in (i + 1)..(j - 1) : tags[k] # "<url>"

HasUrlEntry(file) == \E i \in DOMAIN file.lines : file.lines[i] = "<loc>"

EveryEntryIsDated(file) ==
  /\ \E i \in DOMAIN file.lines : file.lines[i] = "<url>"
  /\ \A i \in DOMAIN file.lines : file.lines[i] = "<url>" => EntryIsDated(file.lines, i)

(***************************************************************************)
(* C14.  The sitemap.xml Finding of a present sitemap scores 50, plus 25   *)
(* if the text has at least one URL (<loc>) entry, plus 25 if every entry  *)
(* carries a last-modified date (<lastmod>), never above 100: one <loc>    *)
(* without <lastmod> scores 75, and 100 once the entry has its <lastmod>.  *)
(* An absent sitemap is 0/fail.                                            *)
(***************************************************************************)
C14_SitemapFinding ==
  Audited =>
    LET sitemapXml == crawl.existingGeoFiles.sitemapXml
        item == Finding("sitemap.xml")
    IN IF ~Present(sitemapXml) THEN item.score = 0 /\ item.status = "fail"
       ELSE /\ item.score = 50 + (IF HasUrlEntry(sitemapXml) THEN 25 ELSE 0)
                               + (IF EveryEntryIsDated(sitemapXml) THEN 25 ELSE 0)
            /\ item.score <= 100

(***************************************************************************)
(* The four structural signals of an llms.txt text                         *)
(***************************************************************************)
HasLineStarting(file, prefix) ==
  \E i \in DOMAIN file.lines :
    file.lines[i].prefix = prefix /\ file.lines[i].rest # ""

HasMarkdownLink(file) ==
  \E i \in DOMAIN file.lines : file.lines[i].rest = "[Page](url)"

StructuralSignals(file) ==
  (IF HasLineStarting(file, "# ") THEN 1 ELSE 0)
    + (IF HasLineStarting(file, "> ") THEN 1 ELSE 0)
    + (IF HasLineStarting(file, "## ") THEN 1 ELSE 0)
    + (IF HasMarkdownLink(file) THEN 1 ELSE 0)

(***************************************************************************)
(* C15.  The llms.txt Finding of a present llms.txt scores 40 + 15 * k,    *)
(* k being the number of the four structural signals present (a line       *)
(* starting with '# ', one with '> ', one with '## ', a markdown link), so *)
(* it is 100 exactly when all four are present; its status is pass iff     *)
(* the score is >= 70 and partial otherwise.  An absent llms.txt is        *)
(* 0/fail.                                                                 *)
(***************************************************************************)
C15_LlmsTxtFinding ==
  Audited =>
    LET llmsTxt == crawl.existingGeoFiles.llmsTxt
        item == Finding("llms.txt")
    IN IF ~Present(llmsTxt) THEN item.score = 0 /\ item.status = "fail"
       ELSE /\ item.score = 40 + 15 * StructuralSignals(llmsTxt)
            /\ item.score \in {40, 55, 70, 85, 100}
            /\ item.score = 100 <=> StructuralSignals(llmsTxt) = 4
            /\ item.status = IF item.score >= 70 THEN "pass" ELSE "partial"

(***************************************************************************)
(* C16.  For each policy-file Finding (robots.txt, sitemap.xml, llms.txt,  *)
(* llms-full.txt, security.txt, tdmrep.json, humans.txt, manifest.json) an *)
(* absent file yields score 0 and status fail.  The AI Policy Finding      *)
(* scores 50 for ai.txt present plus 50 for ai.json present, each on its   *)
(* own: 0/fail with neither, 50/partial with exactly one, 100/pass with    *)
(* both.                                                                   *)
(***************************************************************************)
PolicyFileOf ==
  [n \in {"robots.txt", "sitemap.xml", "llms.txt", "llms-full.txt", "security.txt",
          "tdmrep.json", "humans.txt", "manifest.json"} |->
     CASE n = "robots.txt" -> crawl.existingGeoFiles.robotsTxt
       [] n = "sitemap.xml" -> crawl.existingGeoFiles.sitemapXml
       [] n = "llms.txt" -> crawl.existingGeoFiles.llmsTxt
       [] n = "llms-full.txt" -> crawl.existingGeoFiles.llmsFullTxt
       [] n = "security.txt" -> crawl.existingGeoFiles.securityTxt
       [] n = "tdmrep.json" -> crawl.existingGeoFiles.tdmrepJson
       [] n = "humans.txt" -> crawl.existingGeoFiles.humansTxt
       [] n = "manifest.json" -> crawl.existingGeoFiles.manifestJson]

C16_AbsentFilesAndAiPolicy ==
  Audited =>
    /\ \A n \in DOMAIN PolicyFileOf :
         ~Present(PolicyFileOf[n]) =>
           Finding(n).score = 0 /\ Finding(n).status = "fail"
    /\ LET hasTxt == Present(crawl.existingGeoFiles.aiTxt)
           hasJson == Present(crawl.existingGeoFiles.aiJson)
           item == Finding("AI Policy (ai.txt / ai.json)")
       IN /\ item.score = (IF hasTxt THEN 50 ELSE 0) + (IF hasJson THEN 50 ELSE 0)
          /\ item.status = IF hasTxt /\ hasJson THEN "pass"
                           ELSE IF hasTxt \/ hasJson THEN "partial" ELSE "fail"

(***************************************************************************)
(* C17.  For a crawl with zero pages, every Finding whose score is a       *)
(* fraction over page counts (Server-side Rendering, Meta Descriptions,    *)
(* Heading Hierarchy, Open Graph Tags, AI Content Directives, Content      *)
(* Freshness, Content Structure & Depth) has score 0 and status            *)
(* not_applicable, and no Finding score and no overallScore is NaN.        *)
(***************************************************************************)
PageFractionFindings ==
  {"Server-side Rendering", "Meta Descriptions", "Heading Hierarchy",
   "Open Graph Tags", "AI Content Directives", "Content Freshness",
   "Content Structure & Depth"}

C17_NoPagesMeansNotApplicable ==
  (Audited /\ crawl.pages = <<>>) =>
    /\ \A n \in PageFractionFindings :
         Finding(n).score = 0 /\ Finding(n).status = "not_applicable"
    /\ \A i \in DOMAIN audit.items : audit.items[i].score # NaN
    /\ audit.overallScore # NaN

(***************************************************************************)
(* C18.  generateProjectedAudit, given an AuditResult holding a Finding    *)
(* whose tier is none of critical, high, medium, low, completes without    *)
(* raising, weights that Finding by 1 in overallScore and returns a        *)
(* well-formed AuditResult.                                                *)
(***************************************************************************)
(* weights in half units, an unknown tier weighing 1 *)
DefensiveWeight2(t) == IF t \in Tiers THEN TierWeight2(t) ELSE 2

C18_UnknownTierIsWeightedByOne ==
  (pc = "projected"
     /\ \E i \in DOMAIN audit.items : audit.items[i].category \notin Tiers) =>
    /\ projected # TypeErrorRaised
    /\ Len(projected.items) = Len(audit.items)
    /\ projected.overallScore \in 0..100
    /\ projected.grade \in Grades
    /\ DOMAIN projected.summary = Tiers
    /\ LET S == SumOver([i \in DOMAIN projected.items |->
                          projected.items[i].score
                            * DefensiveWeight2(projected.items[i].category)],
                        1, Len(projected.items))
           M == SumOver([i \in DOMAIN projected.items |->
                          projected.items[i].maxScore
                            * DefensiveWeight2(projected.items[i].category)],
                        1, Len(projected.items))
       IN projected.overallScore = RoundedPercent(S, M)

(***************************************************************************)
(* C19.  In every auditSite result the Finding names are pairwise distinct *)
(* and the same whatever the crawl, and every key of the projection table  *)
(* is the name of exactly one Finding.                                     *)
(***************************************************************************)
(* the names of auditSite's Findings, in the order of the result *)
FindingNames ==
  <<"robots.txt", "sitemap.xml", "llms.txt", "Structured Data (JSON-LD)",
    "Server-side Rendering", "AI Bot Blocking", "Search Engine Indexing",
    "llms-full.txt", "AI Policy (ai.txt / ai.json)", "Meta Descriptions",
    "Heading Hierarchy", "Content Freshness", "Content Structure & Depth",
    "security.txt", "tdmrep.json", "Open Graph Tags", "AI Content Directives",
    "manifest.json", "humans.txt", "FAQ Content">>

C19_FindingNamesAreFixedAndMatchTheTable ==
  Audited =>
    /\ \A i, j \in DOMAIN audit.items :
         audit.items[i].name = audit.items[j].name => i = j
    /\ [i \in DOMAIN audit.items |-> audit.items[i].name] = FindingNames
    /\ \A key \in DOMAIN PROJECTED_IMPROVEMENTS :
         Cardinality({i \in DOMAIN audit.items : audit.items[i].name = key}) = 1

(* an audit of a site without llms-full.txt whose projection found the     *)
(* Finding through its table key                                           *)
C19_Witness ==
  /\ Audited
  /\ Projected
  /\ \E i \in DOMAIN audit.items :
       /\ audit.items[i].name = "llms-full.txt"
       /\ audit.items[i].score = 0
       /\ projected.items[i].score = PROJECTED_IMPROVEMENTS["llms-full.txt"].score
       /\ projected.items[i].details = Text(PROJECTED_IMPROVEMENTS["llms-full.txt"].note)

(***************************************************************************)
(* C20.  auditSite leaves its CrawlResult argument unchanged, and          *)
(* generateProjectedAudit leaves its input AuditResult unchanged (every    *)
(* input Finding, the summary, overallScore and grade keep their values)   *)
(* and returns Finding objects distinct from the input's.                  *)
(***************************************************************************)
ObjectsOf(list) == {list[i] : i \in DOMAIN list}

NoIndexTexts == {"NOINDEX, nofollow", "noindex"}

HasTag(value) == value # NULL /\ value # ""

PagesWhere(S) == Cardinality(S)

C21_SearchIndexingFinding ==
  Audited =>
    LET pages == crawl.pages
        files == crawl.existingGeoFiles
        f == Finding("Search Engine Indexing")
        google == \E i \in DOMAIN pages : HasTag(pages[i].meta.googleVerification)
        bing == \/ \E i \in DOMAIN pages : HasTag(pages[i].meta.bingVerification)
                \/ Present(files.bingSiteAuth)
        sitemapLine == /\ Present(files.robotsTxt)
                       /\ \E i \in DOMAIN files.robotsTxt.lines :
                            files.robotsTxt.lines[i].kind = "sitemap"
        noNoindex == \A i \in DOMAIN pages :
                       /\ pages[i].meta.robots \notin NoIndexTexts
                       /\ pages[i].responseHeaders.xRobotsTag \notin NoIndexTexts
        k == PagesWhere({i \in DOMAIN pages : HasTag(pages[i].meta.canonical)})
        n == Len(pages)
        fifth == IF n = 0 \/ k = 0 THEN 0
                 ELSE IF 10 * k >= 8 * n THEN 20
                 ELSE Rounded(20 * k, n)
        points(b) == IF b THEN 20 ELSE 0
    IN /\ f.score = points(google) + points(bing) + points(sitemapLine)
                      + points(noNoindex) + fifth
       /\ f.score <= 100
       /\ f.status = "pass" <=> f.score = 100
       /\ f.status = "partial" <=> (f.score >= 50 /\ f.score < 100)
       /\ f.status = "fail" <=> f.score < 50

(* canonical URLs on one page of three: the fifth signal gives round(20/3) *)
C21_Witness ==
  /\ Audited
  /\ Len(crawl.pages) = 3
  /\ PagesWhere({i \in DOMAIN crawl.pages : HasTag(crawl.pages[i].meta.canonical)}) = 1
  /\ Finding("Search Engine Indexing").score = 67
  /\ Finding("Search Engine Indexing").status = "partial"

(***************************************************************************)
(* C22.  Meta Descriptions, Open Graph Tags and AI Content Directives are  *)
(* each a coverage check: with at least one page, the score equals         *)
(* round(100 * f), f being the fraction of pages carrying the signal (a    *)
(* meta description; og:title and og:description; a max-snippet or         *)
(* max-image-preview directive), and status is pass iff f >= 0.8, partial  *)
(* iff 0.5 <= f < 0.8, fail otherwise.                                     *)
(***************************************************************************)
MaxSnippetTexts == {"max-snippet:-1", "max-snippet:-1, max-image-preview:large"}

MaxImagePreviewTexts ==
  {"Max-Image-Preview:large", "max-snippet:-1, max-image-preview:large"}

HasMaxSnippet(page) ==
  page.meta.robots \in MaxSnippetTexts \/ page.responseHeaders.xRobotsTag \in MaxSnippetTexts

HasMaxImagePreview(page) ==
  \/ page.meta.robots \in MaxImagePreviewTexts
  \/ page.responseHeaders.xRobotsTag \in MaxImagePreviewTexts

HasOpenGraph(page) == HasTag(page.meta.ogTitle) /\ HasTag(page.meta.ogDescription)

(* the Finding is the coverage check of k pages out of n *)
IsCoverageCheck(f, k, n) ==
  /\ f.score = Rounded(100 * k, n)
  /\ f.status = "pass" <=> 10 * k >= 8 * n
  /\ f.status = "partial" <=> (2 * k >= n /\ 10 * k < 8 * n)
  /\ f.status = "fail" <=> 2 * k < n

NamesAgent(line) == line.kind = "agent" /\ line.arg # ""

LeavesAgents(line) == line.kind \in {"blank", "comment"}

(* the last line among the first n that is neither a User-agent line nor   *)
(* blank nor a comment, 0 if there is none                                 *)
RunStart(lines, n) ==
  CHOOSE s \in 0..n :
    /\ s > 0 => ~(NamesAgent(lines[s]) \/ LeavesAgents(lines[s]))
    /\ \A k \in (s + 1)..n : NamesAgent(lines[k]) \/ LeavesAgents(lines[k])

(* the agents named on the run of User-agent lines that ends at line n *)
RunAgents(lines, n) ==
  LET run == SelectSeq(SubSeq(lines, RunStart(lines, n) + 1, n), NamesAgent)
  IN [i \in DOMAIN run |-> run[i].arg]

(* the crawlers a full block of the agents marks *)
MarkedBy(file, agents) ==
  {b \in ReferenceCrawlers :
     \E i \in DOMAIN agents :
       \/ agents[i] = "*" /\ ~hasExplicitAllow(file, b)
       \/ agents[i] # "*" /\ toLowerCase(agents[i]) = toLowerCase(b)}

(* the bots the scan added to blockedBots at line n *)
AddedAt(file, n) ==
  LET before == blockingScan(file, n - 1).blockedBots
      after == blockingScan(file, n).blockedBots
  IN {after[i] : i \in (Len(before) + 1)..Len(after)}

C23_DisallowAppliesToTheAgentRun ==
  (Audited /\ Present(crawl.existingGeoFiles.robotsTxt)) =>
    LET file == crawl.existingGeoFiles.robotsTxt
        lines == file.lines
    IN \A n \in DOMAIN lines :
         LET before == blockingScan(file, n - 1)
             after == blockingScan(file, n)
         IN /\ before.currentAgents = RunAgents(lines, n - 1)
            /\ after.currentAgents = RunAgents(lines, n)
            /\ LeavesAgents(lines[n]) => after.currentAgents = before.currentAgents
            /\ (~NamesAgent(lines[n]) /\ ~LeavesAgents(lines[n])) =>
                 after.currentAgents = <<>>
            /\ SubSeq(after.blockedBots, 1, Len(before.blockedBots)) = before.blockedBots
            /\ AddedAt(file, n) =
                 IF lines[n].kind = "disallow" /\ lines[n].arg = "/"
                   THEN MarkedBy(file, RunAgents(lines, n - 1))
                   ELSE {}
            /\ before.currentAgents = <<>> => AddedAt(file, n) = {}

(* a full block after two User-agent lines with a comment and a blank line *)
(* between them and the rule, followed by a second full block that meets   *)
(* the cleared agent set                                                   *)
C23_Witness ==
  /\ Audited
  /\ LET file == crawl.existingGeoFiles.robotsTxt
     IN /\ Present(file)
        /\ \E n \in DOMAIN file.lines :
             /\ n + 1 \in DOMAIN file.lines
             /\ disallowMatch(file.lines[n]) /\ disallowMatch(file.lines[n + 1])
             /\ RunAgents(file.lines, n - 1) = <<"GPTBot", "CCBot">>
             /\ \E k \in 1..(n - 1) : file.lines[k].kind = "comment"
             /\ \E k \in 1..(n - 1) : file.lines[k].kind = "blank"
             /\ AddedAt(file, n) = {"GPTBot", "CCBot"}
             /\ AddedAt(file, n + 1) = {}
  /\ Finding("AI Bot Blocking").details.names = <<"GPTBot", "CCBot">>

(***************************************************************************)
(* C24.  The explicit-allow scan assigns rule lines to agents as the       *)
(* blocking scan does: for every robots.txt text and every reference       *)
(* crawler b, hasExplicitAllow(text, b) holds exactly when some Allow: /   *)
(* line occurs where the blocking scan's current agent set contains b      *)
(* (compared case-insensitively), groups of several consecutive            *)
(* User-agent lines included.                                              *)
(***************************************************************************)
(* an Allow: / line stands where the blocking scan's agent set names b *)
AllowedWhereCurrent(file, b) ==
  \E n \in DOMAIN file.lines :
    /\ file.lines[n].kind = "allow" /\ file.lines[n].arg = "/"
    /\ LET currentAgents == blockingScan(file, n - 1).currentAgents
       IN \E i \in DOMAIN currentAgents :
            toLowerCase(currentAgents[i]) = toLowerCase(b)

C24_ExplicitAllowScanAgreesWithBlockingScan ==
  (Audited /\ Present(crawl.existingGeoFiles.robotsTxt)) =>
    \A b \in ReferenceCrawlers :
      hasExplicitAllow(crawl.existingGeoFiles.robotsTxt, b)
        <=> AllowedWhereCurrent(crawl.existingGeoFiles.robotsTxt, b)

(***************************************************************************)
(* C25.  A reference crawler is counted as blocked only if the text holds  *)
(* a full-path Disallow: / line applying to an agent set that names that   *)
(* crawler (case-insensitively) or the wildcard *; and every named         *)
(* reference crawler in the agent set of such a line is counted as         *)
(* blocked.  A Disallow with an empty or a longer path, an Allow line, or  *)
(* a group naming only non-reference agents never adds a crawler.          *)
(***************************************************************************)
FullBlock(line) == line.kind = "disallow" /\ line.arg = "/"

(* the crawlers the AI Bot Blocking Finding reports as blocked *)
CountedAsBlocked ==
  LET names == Finding("AI Bot Blocking").details.names
  IN {names[i] : i \in DOMAIN names}

(* the agent names the reference crawler answers to *)
Names(agent, b) == toLowerCase(agent) = toLowerCase(b)

C25_BlockedOnlyByFullBlockOfOwnAgentSet ==
  (Audited /\ Present(crawl.existingGeoFiles.robotsTxt)) =>
    LET file == crawl.existingGeoFiles.robotsTxt
        lines == file.lines
        agentsAt(n) == RunAgents(lines, n - 1)
    IN /\ CountedAsBlocked \subseteq ReferenceCrawlers
       /\ \A b \in CountedAsBlocked :
            \E n \in DOMAIN lines :
              /\ FullBlock(lines[n])
              /\ \E i \in DOMAIN agentsAt(n) :
                   agentsAt(n)[i] = "*" \/ Names(agentsAt(n)[i], b)
       /\ \A n \in DOMAIN lines :
            FullBlock(lines[n]) =>
              \A b \in ReferenceCrawlers :
                (\E i \in DOMAIN agentsAt(n) : Names(agentsAt(n)[i], b)) =>
                  b \in CountedAsBlocked
       /\ \A n \in DOMAIN lines :
            (\/ ~FullBlock(lines[n])
             \/ (\A i \in DOMAIN agentsAt(n) :
                   /\ agentsAt(n)[i] # "*"
                   /\ \A b \in ReferenceCrawlers : ~Names(agentsAt(n)[i], b)))
              => AddedAt(file, n) = {}

(* CLAUDEBOT in capitals and Bytespider share a full block: both crawlers  *)
(* are counted, ClaudeBot under its reference name                         *)
C25_Witness ==
  /\ Audited
  /\ Present(crawl.existingGeoFiles.robotsTxt)
  /\ \E n \in DOMAIN crawl.existingGeoFiles.robotsTxt.lines :
       /\ FullBlock(crawl.existingGeoFiles.robotsTxt.lines[n])
       /\ RunAgents(crawl.existingGeoFiles.robotsTxt.lines, n - 1)
            = <<"CLAUDEBOT", "Bytespider">>
  /\ CountedAsBlocked = {"ClaudeBot", "Bytespider"}

(***************************************************************************)
(* C26.  generateProjectedAudit is idempotent: projecting a projected      *)
(* result gives the same result again, in every Finding field,             *)
(* overallScore, grade and summary.                                        *)
(***************************************************************************)
C26_ProjectionIsIdempotent ==
  Projected =>
    LET again == generateProjectedAudit(projected)
    IN /\ again # TypeErrorRaised
       /\ again.items = projected.items
       /\ again.overallScore = projected.overallScore
       /\ again.grade = projected.grade
       /\ again.summary = projected.summary
       /\ again.maxPossibleScore = projected.maxPossibleScore

(* a projection that raised a Finding to its target and the overallScore   *)
(* with it, and that a second projection leaves as it is                   *)
C26_Witness ==
  /\ Projected
  /\ \E i \in DOMAIN audit.items :
       /\ audit.items[i].name \in DOMAIN PROJECTED_IMPROVEMENTS
       /\ audit.items[i].score < projected.items[i].score
  /\ projected.overallScore > audit.overallScore
  /\ generateProjectedAudit(projected) = projected

(***************************************************************************)
(* C27.  generateProjectedAudit preserves the Finding list's length and    *)
(* order and, at every index, the Finding's name, tier and maxScore, so    *)
(* before.items[i] and after.items[i] describe the same check.             *)
(***************************************************************************)
C27_ProjectionKeepsTheListOfChecks ==
  Projected =>
    /\ Len(projected.items) = Len(audit.items)
    /\ \A i \in DOMAIN audit.items :
         /\ projected.items[i].name = audit.items[i].name
         /\ projected.items[i].category = audit.items[i].category
         /\ projected.items[i].maxScore = audit.items[i].maxScore

(* two different checks, the second of them improved to 85 *)
C27_Witness ==
  /\ Projected
  /\ Len(audit.items) = 2
  /\ audit.items[1].name = "Meta Descriptions"
  /\ audit.items[2].name = "Structured Data (JSON-LD)"
  /\ audit.items[2].score = 29
  /\ projected.items[2].score = 85
  /\ projected.items[1] = audit.items[1]

(***************************************************************************)
(* C28.  The projection's re-aggregation agrees with the auditor's         *)
(* aggregation: for every result of auditSite in which no Finding is       *)
(* eligible for improvement (every table-named Finding is at or above its  *)
(* target), generateProjectedAudit returns a result equal to it in         *)
(* overallScore, grade, summary and every Finding field.                   *)
(***************************************************************************)
NothingToImprove ==
  \A i \in DOMAIN audit.items :
    audit.items[i].name \in DOMAIN PROJECTED_IMPROVEMENTS =>
      audit.items[i].score >= PROJECTED_IMPROVEMENTS[audit.items[i].name].score

C28_ReaggregationAgreesWithAuditor ==
  (Audited /\ pc = "projected" /\ NothingToImprove) =>
    /\ projected # TypeErrorRaised
    /\ projected.overallScore = audit.overallScore
    /\ projected.grade = audit.grade
    /\ projected.summary = audit.summary
    /\ projected.items = audit.items
    /\ projected.maxPossibleScore = audit.maxPossibleScore

(* a site that has every generated file, whose remaining Findings are not  *)
(* all perfect                                                             *)
C28_Witness ==
  /\ Audited
  /\ pc = "projected"
  /\ NothingToImprove
  /\ audit.overallScore \in 1..99
  /\ \E i \in DOMAIN audit.items : audit.items[i].status = "fail"
  /\ projected = audit

(***************************************************************************)
(* Vocabulary of the properties of the job runner and the progress stream  *)
(***************************************************************************)
JobExists == web.at # "new"

IsPrefix(s, t) == Len(s) <= Len(t) /\ s = SubSeq(t, 1, Len(s))

(* the positions of the terminal events in a list of stages *)
TerminalAt(stages) == {i \in DOMAIN stages : stages[i] \in TerminalStages}

(* one terminal event, and it is the last event of the list *)
EndsWithItsOnlyTerminal(stages) == TerminalAt(stages) = {Len(stages)} /\ stages # <<>>

(***************************************************************************)
(* C29.  For every scan or check job whose row exists the stored status    *)
(* only moves pending -> running -> completed or pending -> running ->     *)
(* failed; once completed or failed it never changes again, and exactly    *)
(* one terminal progress event is emitted for the job ('done' after a      *)
(* completed status is stored, 'error' after a failed one), with no        *)
(* progress event after it.                                                *)
(***************************************************************************)
StatusPathIsLegal ==
  \/ IsPrefix(web.statusLog, <<"pending", "running", "completed">>)
  \/ IsPrefix(web.statusLog, <<"pending", "running", "failed">>)

TerminalEventIsLastAndMatchesStatus ==
  /\ Cardinality(TerminalAt(web.emitted)) <= 1
  /\ TerminalAt(web.emitted) # {} =>
       /\ EndsWithItsOnlyTerminal(web.emitted)
       /\ web.row =>
            status(web) = IF web.emitted[Len(web.emitted)] = "done"
                            THEN "completed" ELSE "failed"
  /\ (web.row /\ status(web) \in TerminalStatuses) => TerminalAt(web.emitted) # {}

StreamIsConsistent(k) ==
  LET client == web.sse[k]
  IN /\ client.stream = "open" =>
          /\ client.listening
          /\ TerminalAt(client.received) = {}
          /\ TerminalAt(web.emitted) = {}
     /\ client.stream = "ended" =>
          /\ ~client.listening
          /\ EndsWithItsOnlyTerminal(client.received)
          /\ TerminalAt(web.emitted) # {} =>
               client.received[Len(client.received)] = web.emitted[Len(web.emitted)]
     /\ client.stream \in {"none", "404", "closed by client"} =>
          /\ ~client.listening
          /\ TerminalAt(client.received) = {}

C30_EverySubscriberGetsOneTerminalEvent ==
  /\ [](JobExists => \A k \in SseClients : StreamIsConsistent(k))
  /\ [][\A k \in SseClients :
          (JobExists /\ web.sse[k].stream = "none" /\ web'.sse[k].stream # "none"
             /\ web.row /\ status(web) \in TerminalStatuses) =>
            /\ web'.sse[k].stream = "ended"
            /\ web'.sse[k].received
                 = <<IF status(web) = "completed" THEN "done" ELSE "error">>]_vars
  /\ [][\A k \in SseClients :
          (JobExists /\ web.sse[k].stream = "none" /\ web.row) =>
            web'.sse[k].stream # "404"]_vars
  /\ \A k \in SseClients :
       (JobExists /\ web.sse[k].stream = "open")
         ~> (web.sse[k].stream \in {"ended", "closed by client"})

(* one client subscribed while the job ran and got the terminal event when *)
(* the job failed; the other subscribed afterwards and got it at once      *)
C30_Witness ==
  /\ web # NoWeb
  /\ web.row
  /\ web.sse[1].stream = "ended"
  /\ Len(web.sse[1].received) > 1
  /\ web.sse[1].received[Len(web.sse[1].received)] = "error"
  /\ web.sse[2].stream = "ended"
  /\ web.sse[2].received = <<"error">>
  /\ \A k \in SseClients : ~web.sse[k].listening

=============================================================================
